---- MODULE Spec2Model ----
(***************************************************************************)
(* A model of the core of the shade compiler: the sharded intern tables,   *)
(* the typing context (type_of / infer_item / check_item, the type-map     *)
(* codec and the with_tcx driver), the layout engines, the MIR builder,    *)
(* the lowering of bodies, the declare / define passes of code generation, *)
(* the unifier of the type inference and the symbol interner.              *)
(*                                                                         *)
(* Each subsystem has its own specification (SpecIntern, SpecShards,       *)
(* SpecShardIndex, SpecTcx, SpecLayout, SpecAdt, SpecRef, SpecMir,         *)
(* SpecTerm, SpecLower, SpecCodegen, SpecUnify, SpecUnifyParts, SpecSym).  *)
(* The variables of the subsystems a specification does not exercise stay  *)
(* at their idle values.                                                   *)
(***************************************************************************)
EXTENDS Integers, Sequences, FiniteSets, TLC

VARIABLES
    \* ---- sharded intern tables (src/compiler/check/src/sharded.rs) ----
    pc,        \* position of each thread inside intern / intern_ref
    arg,       \* the (table, value) a thread is interning
    hashv,     \* the hash a thread computed for its value (a set of bit positions)
    result,    \* the reference a thread is about to return
    callsLeft, \* calls the threads may still start
    locks,     \* locks[table][i]: holder of shard i's mutex, or "free"
    shards,    \* shards[table][i]: the interned references held by shard i
    arena,     \* the bump arena: arena[p] is the object behind reference p
    ncalls,    \* history: completed calls per (table, value)
    retptr,    \* history: references returned per (table, value)
    conc,      \* history: references returned by overlapping equal calls
    guards,    \* the Vec of guards a thread collects in lock_shards / try_lock_shards
    \* ---- MIR builder (src/mir/src/lib.rs) ----
    nparams,       \* the number of parameters the body was declared with
    locals,        \* Body::locals: LocalId -> Local
    blocks,        \* Body::blocks: BlockId -> Block
    current_block, \* Builder::current_block: <<>> is None, <<b>> is Some(b)
    localLog,      \* history: the ids handed out, in creation order
    todo,          \* BodyConverter: what is left to lower, innermost last
    \* ---- layout engines (src/compiler/check/src/tcx.rs, src/compiler/mir/src/layout.rs) ----
    triple,    \* the pointer width of the target triple
    engine,    \* which engine computes: "tcx" (Tcx::layout) or "mir" (layout_of_query)
    stack,     \* the layouts computed so far that are not yet part of a larger type
    \* ---- typing context and driver (src/compiler/check/src/tcx.rs, lib.rs, src/check/src/tcx/item.rs) ----
    package,     \* the resolved package: its items, type references, bodies and type-map files
    phase,       \* the position of with_tcx
    cursor,      \* the next item of `for (id, _) in &package.items`
    types,       \* Tcx::types: Id -> Ty
    interned,    \* the interned types: interned[p] is the Type behind pointer p
    frames,      \* the type_of calls in progress, innermost last
    retv,        \* the value the last finished type_of call returned: <<>> or <<ty>>
    constraints, \* Tcx::constraints
    ty_vars,     \* Tcx::ty_vars
    diags,       \* the diagnostics the reporter received
    verified,    \* whether Tcx::verify ran
    continued,   \* whether the continuation f(tcx) was invoked
    tmap,        \* the TypeMap store_type_map built: <<>> or <<map>>
    file,        \* the type-map file store_type_map wrote: <<>> or <<entries>>
    fresh,       \* a fresh context that loaded the file: <<>> or <<[interned, types]>>
    calls,       \* history: the finished type_of calls
    inferCount,  \* history: how often infer_item ran per item
    \* ---- code generation (src/codegen/src/trans.rs, trans/rvalue.rs) ----
    pkg_items,    \* package.items, in id order: item i has the id i
    func_ids,     \* func_ids: Id -> the declared Signature and the return layout
    data_ids,     \* data_ids: Id -> the layout of the declared data item
    cg_pc,        \* the position of translate: "declare", "define" or "panicked"
    defined,      \* how many items the define loop has passed
    start_params, \* per item passed: the block parameters define appended to start_block
    call_insts,   \* the call instructions emitted: callee and argument values
    \* ---- type inference (src/compiler/hir_ty/src/infer/unify.rs) ----
    next_unknown, \* Substitution::next_unknown
    unsolved,     \* Substitution::unsolved: Unknown -> kind
    subst_tys,    \* Substitution::tys: Unknown -> Ty
    unify_calls,  \* how many unify_types / subst_type calls were made
    last_call,    \* history: the last call, its resolved arguments and its outcome
    \* ---- shard selection (src/compiler/check/src/sharded.rs) ----
    shard_bits,  \* SHARD_BITS of the build
    shard_hash,  \* the hash handed to get_shard_index_by_hash, as its set of 1-bit positions
    shard_index, \* the index it returned: <<>> before the call, <<i>> after
    \* ---- symbol interner (src/compiler/syntax/src/symbol.rs) ----
    sym_data,    \* SymbolInterner::data of GLOBAL_SYMBOL_INTERNER
    issued,      \* history: the Symbol::new calls, each with its name and the symbol returned
    \* ---- history of the MIR builder's terminator calls ----
    dropped      \* whether the last terminator call found the terminator already set

internVars == <<pc, arg, hashv, result, callsLeft, locks, shards, arena, ncalls, retptr, conc,
                guards>>

mirVars == <<nparams, locals, blocks, current_block, localLog, todo>>

layVars == <<triple, engine, stack>>

tcxVars == <<package, phase, cursor, types, interned, frames, retv, constraints, ty_vars, diags,
             verified, continued, tmap, file, fresh, calls, inferCount>>

cgVars == <<pkg_items, func_ids, data_ids, cg_pc, defined, start_params, call_insts>>

unifyVars == <<next_unknown, unsolved, subst_tys, unify_calls, last_call>>

shardVars == <<shard_bits, shard_hash, shard_index>>

symVars == <<sym_data, issued>>

termVars == <<dropped>>

vars == <<internVars, mirVars, layVars, tcxVars, cgVars, unifyVars, shardVars, symVars, termVars>>

(***************************************************************************)
(* Bounds of the model.                                                    *)
(***************************************************************************)
NumVals == 3
MaxCalls == 3
MaxParams == 1
MaxLocals == 4
MaxBlocks == 2
MaxNodes == 4
MaxArrayLen == 2
MaxFields == 2
NumItems == 3
MaxLayoutOf == 1
MaxLockAll == 1
MaxShardCalls == 2
MaxLowerBlocks == 7
MaxLowerTmps == 3
MaxArms == 2
MaxVariantFields == 2
MaxUnitVariants == 17
MaxCgParams == 2
MaxCgCalls == 1
MaxUnknowns == 2
MaxUnifyCalls == 3
MaxRefs == 2
MaxPlaced == 1
MaxSymbolCalls == 4

(***************************************************************************)
(*                      SHARDED INTERN TABLES                              *)
(***************************************************************************)
Threads == {"t1", "t2"}

\* The interner families of TcxIntern that the model exercises: `types` is
\* entered by value (intern), `type_list` by reference (intern_ref).
Tables == {"types", "type_list"}

\* Structural values.  In table type_list the value v stands for a slice of
\* length v, so 0 is the empty slice.
Vals == 0 .. (NumVals - 1)

Keys == [table : Tables, value : Vals]

SHARD_BITS == 5

SHARDS == 2 ^ SHARD_BITS

hash_len == 8

\* The reference List::empty() returns; it is not an arena object.
EmptyList == 0

RECURSIVE BitsValue(_)
\* The number whose binary digits are at the positions in bs.
BitsValue(bs) ==
    IF bs = {} THEN 0
    ELSE LET b == CHOOSE x \in bs : TRUE
         IN  2 ^ b + BitsValue(bs \ {b})

\* hash >> s, on a hash given as its set of 1-bit positions.
ShiftRight(h, s) == {b - s : b \in {x \in h : x >= s}}

\* A deterministic 64-bit hash of a value.  Values v and v + 2 collide on the
\* whole hash (below 4), values of different parity select different shards.
make_hash(v) ==
    {hash_len * 8 - 7 - SHARD_BITS + (v % 2)} \cup (IF (v \div 4) % 2 = 1 THEN {60} ELSE {})

\* An index read from the highest SHARD_BITS bits of the hash.
ShardIndexTop(hash, k) == BitsValue(ShiftRight(hash, hash_len * 8 - k)) % (2 ^ k)

ShardIndex(hash, k) ==
    LET bits == BitsValue(ShiftRight(hash, hash_len * 8 - 7 - k))
    IN  bits % (2 ^ k)

get_shard_index_by_hash(hash) == ShardIndex(hash, SHARD_BITS)

\* A mutex that never excludes anybody.
LockAlwaysFree(table, i) == TRUE

\* The guard of Mutex::lock: the call blocks until the shard's mutex is free.
ShardFree(table, i) == locks[table][i] = "free"

\* A lookup that never finds the key.
LookupNothing(shard, hash, key) == {}

\* raw_entry_mut().from_key_hashed_nocheck(hash, value): the entries of the
\* shard with this hash whose referent equals the key.
Lookup(shard, hash, key) ==
    {p \in shard : make_hash(arena[p].value) = hash /\ arena[p] = key}

\* A thread that is not inside lock_shards, try_lock_shards or len.
NoGuards == [op |-> "none", table |-> "types", held |-> <<>>]

\* The operations that lock every shard.
LockAllOps == {"lock_shards", "try_lock_shards", "len"}

\* The calls of those operations started so far that have not returned.
LockAllCalls == Cardinality({t \in Threads : guards[t].op # "none"})

\* A guard that is never dropped.
KeepGuards(lk, t) == lk

\* The MutexGuards of thread t go out of scope: every mutex it holds is free again.
DropGuards(lk, t) ==
    [tb \in Tables |-> [i \in 0 .. (SHARDS - 1) |->
        IF lk[tb][i] = t THEN "free" ELSE lk[tb][i]]]

\* ShardedHashMap::len: the sum of the lengths of the shards.
ShardedLen(tb) == Cardinality(UNION {shards[tb][i] : i \in 0 .. (SHARDS - 1)})

\* The tables after TcxIntern::new, with n calls still to come.
InternStart(n) ==
    /\ pc = [t \in Threads |-> "idle"]
    /\ arg = [t \in Threads |-> [table |-> "types", value |-> 0]]
    /\ hashv = [t \in Threads |-> {}]
    /\ result = [t \in Threads |-> EmptyList]
    /\ callsLeft = n
    /\ locks = [tb \in Tables |-> [i \in 0 .. (SHARDS - 1) |-> "free"]]
    /\ shards = [tb \in Tables |-> [i \in 0 .. (SHARDS - 1) |-> {}]]
    /\ arena = <<>>
    /\ ncalls = [k \in Keys |-> 0]
    /\ retptr = [k \in Keys |-> {}]
    /\ conc = [t \in Threads |-> {}]
    /\ guards = [t \in Threads |-> NoGuards]

InternInit == InternStart(MaxCalls)

\* intern_ty / intern_layout: the value always goes to the set.  The hash is
\* computed before the shard is locked.
CallIntern(t, v) ==
    /\ pc[t] = "idle"
    /\ callsLeft > 0
    /\ callsLeft' = callsLeft - 1
    /\ arg' = [arg EXCEPT ![t] = [table |-> "types", value |-> v]]
    /\ hashv' = [hashv EXCEPT ![t] = make_hash(v)]
    /\ conc' = [conc EXCEPT ![t] = {}]
    /\ pc' = [pc EXCEPT ![t] = "lock"]
    /\ UNCHANGED <<result, locks, shards, arena, ncalls, retptr, guards>>

\* intern_ty_list and the other list interners: the empty slice is the shared
\* sentinel and never reaches the set; any other slice goes to intern_ref.
CallInternList(t, v) ==
    /\ pc[t] = "idle"
    /\ callsLeft > 0
    /\ callsLeft' = callsLeft - 1
    /\ arg' = [arg EXCEPT ![t] = [table |-> "type_list", value |-> v]]
    /\ conc' = [conc EXCEPT ![t] = {}]
    /\ IF v = 0
       THEN /\ result' = [result EXCEPT ![t] = EmptyList]
            /\ pc' = [pc EXCEPT ![t] = "ret"]
            /\ UNCHANGED hashv
       ELSE /\ hashv' = [hashv EXCEPT ![t] = make_hash(v)]
            /\ pc' = [pc EXCEPT ![t] = "lock"]
            /\ UNCHANGED result
    /\ UNCHANGED <<locks, shards, arena, ncalls, retptr, guards>>

\* self.get_shard_by_hash(hash).lock().unwrap()
LockShard(t) ==
    LET tb == arg[t].table
        i  == get_shard_index_by_hash(hashv[t])
    IN  /\ pc[t] = "lock"
        /\ ShardFree(tb, i)
        /\ locks' = [locks EXCEPT ![tb][i] = t]
        /\ pc' = [pc EXCEPT ![t] = "entry"]
        /\ UNCHANGED <<arg, hashv, result, callsLeft, shards, arena, ncalls, retptr, conc, guards>>

\* RawEntryMut::Occupied(e) => *e.key()
EntryOccupied(t) ==
    LET tb    == arg[t].table
        i     == get_shard_index_by_hash(hashv[t])
        found == Lookup(shards[tb][i], hashv[t], arg[t])
    IN  /\ pc[t] = "entry"
        /\ found # {}
        /\ \E p \in found :
              result' = [result EXCEPT ![t] = p]
        /\ pc' = [pc EXCEPT ![t] = "ret"]
        /\ UNCHANGED <<arg, hashv, callsLeft, locks, shards, arena, ncalls, retptr, conc, guards>>

\* RawEntryMut::Vacant(e) => { let v = make(value); ... }: the make closure
\* allocates the value in the arena.
EntryVacantMake(t) ==
    LET tb    == arg[t].table
        i     == get_shard_index_by_hash(hashv[t])
        found == Lookup(shards[tb][i], hashv[t], arg[t])
    IN  /\ pc[t] = "entry"
        /\ found = {}
        /\ arena' = Append(arena, arg[t])
        /\ result' = [result EXCEPT ![t] = Len(arena) + 1]
        /\ pc' = [pc EXCEPT ![t] = "insert"]
        /\ UNCHANGED <<arg, hashv, callsLeft, locks, shards, ncalls, retptr, conc, guards>>

\* e.insert_hashed_nocheck(hash, v, ())
InsertEntry(t) ==
    LET tb == arg[t].table
        i  == get_shard_index_by_hash(hashv[t])
    IN  /\ pc[t] = "insert"
        /\ shards' = [shards EXCEPT ![tb][i] = @ \cup {result[t]}]
        /\ pc' = [pc EXCEPT ![t] = "ret"]
        /\ UNCHANGED <<arg, hashv, result, callsLeft, locks, arena, ncalls, retptr, conc, guards>>

\* The function returns: the guard is dropped and the caller gets the reference.
\* Every call still running on an equal argument has overlapped this one.
ReturnIntern(t) ==
    /\ pc[t] = "ret"
    /\ locks' = DropGuards(locks, t)
    /\ ncalls' = [ncalls EXCEPT ![arg[t]] = IF @ < MaxCalls THEN @ + 1 ELSE @]
    /\ retptr' = [retptr EXCEPT ![arg[t]] = @ \cup {result[t]}]
    /\ conc' = [u \in Threads |->
                    IF u # t /\ pc[u] # "idle" /\ arg[u] = arg[t]
                    THEN conc[u] \cup {result[t]} ELSE conc[u]]
    /\ pc' = [pc EXCEPT ![t] = "idle"]
    /\ UNCHANGED <<arg, hashv, result, callsLeft, shards, arena, guards>>

\* lock_shards, try_lock_shards or len is called on a table: the Vec of
\* guards starts empty and the map over 0..SHARDS starts at shard 0.
CallLockShards(t, tb, op) ==
    /\ pc[t] = "idle"
    /\ callsLeft > 0
    /\ LockAllCalls < MaxLockAll
    /\ callsLeft' = callsLeft - 1
    /\ guards' = [guards EXCEPT ![t] = [op |-> op, table |-> tb, held |-> <<>>]]
    /\ pc' = [pc EXCEPT ![t] = "shards"]
    /\ UNCHANGED <<arg, hashv, result, locks, shards, arena, ncalls, retptr, conc>>

\* self.shards[i].0.lock().unwrap() inside the map of lock_shards (and of
\* len, which calls lock_shards): the call blocks until shard i is free and
\* the guard joins the guards already collected.
LockNextShard(t) ==
    LET g == guards[t]
        i == Len(g.held)
    IN  /\ pc[t] = "shards"
        /\ g.op \in {"lock_shards", "len"}
        /\ i < SHARDS
        /\ ShardFree(g.table, i)
        /\ locks' = [locks EXCEPT ![g.table][i] = t]
        /\ guards' = [guards EXCEPT ![t].held = Append(@, i)]
        /\ UNCHANGED <<pc, arg, hashv, result, callsLeft, shards, arena, ncalls, retptr, conc>>

\* self.shards[i].0.try_lock().ok() inside the map of try_lock_shards: a free
\* shard is locked and its guard collected; on a held shard the collect into
\* Option stops, the guards collected so far are dropped and None is returned.
TryLockNextShard(t) ==
    LET g == guards[t]
        i == Len(g.held)
    IN  /\ pc[t] = "shards"
        /\ g.op = "try_lock_shards"
        /\ i < SHARDS
        /\ IF ShardFree(g.table, i)
           THEN /\ locks' = [locks EXCEPT ![g.table][i] = t]
                /\ guards' = [guards EXCEPT ![t].held = Append(@, i)]
                /\ UNCHANGED pc
           ELSE /\ locks' = DropGuards(locks, t)
                /\ guards' = [guards EXCEPT ![t] = NoGuards]
                /\ pc' = [pc EXCEPT ![t] = "idle"]
        /\ UNCHANGED <<arg, hashv, result, callsLeft, shards, arena, ncalls, retptr, conc>>

\* The map is exhausted and the Vec is complete.  lock_shards and
\* try_lock_shards hand it to the caller; len sums the shard lengths and
\* drops the guards at the end of its statement.
CollectShards(t) ==
    LET g == guards[t]
    IN  /\ pc[t] = "shards"
        /\ Len(g.held) = SHARDS
        /\ IF g.op = "len"
           THEN /\ result' = [result EXCEPT ![t] = ShardedLen(g.table)]
                /\ locks' = DropGuards(locks, t)
                /\ guards' = [guards EXCEPT ![t] = NoGuards]
                /\ pc' = [pc EXCEPT ![t] = "idle"]
           ELSE /\ pc' = [pc EXCEPT ![t] = "collected"]
                /\ UNCHANGED <<result, locks, guards>>
        /\ UNCHANGED <<arg, hashv, callsLeft, shards, arena, ncalls, retptr, conc>>

\* The caller of lock_shards / try_lock_shards drops the Vec of guards.
DropShards(t) ==
    /\ pc[t] = "collected"
    /\ locks' = DropGuards(locks, t)
    /\ guards' = [guards EXCEPT ![t] = NoGuards]
    /\ pc' = [pc EXCEPT ![t] = "idle"]
    /\ UNCHANGED <<arg, hashv, result, callsLeft, shards, arena, ncalls, retptr, conc>>

\* No body has been declared.
MirIdle ==
    /\ nparams = 0
    /\ locals = <<>>
    /\ blocks = <<>>
    /\ current_block = <<>>
    /\ localLog = <<>>
    /\ todo = <<>>

\* No layout has been asked for.
LayIdle ==
    /\ triple = "U64"
    /\ engine = "tcx"
    /\ stack = <<>>

\* The typing context before with_tcx is entered, for an empty package.
TcxIdle ==
    /\ package = [tref |-> <<>>, body |-> <<>>, typemaps |-> <<>>]
    /\ phase = "idle"
    /\ cursor = 0
    /\ types = <<>>
    /\ interned = <<>>
    /\ frames = <<>>
    /\ retv = <<>>
    /\ constraints = <<>>
    /\ ty_vars = 0
    /\ diags = <<>>
    /\ verified = FALSE
    /\ continued = FALSE
    /\ tmap = <<>>
    /\ file = <<>>
    /\ fresh = <<>>
    /\ calls = {}
    /\ inferCount = <<>>

\* translate has not been entered.
CgIdle ==
    /\ pkg_items = <<>>
    /\ func_ids = <<>>
    /\ data_ids = <<>>
    /\ cg_pc = "declare"
    /\ defined = 0
    /\ start_params = <<>>
    /\ call_insts = <<>>

\* An InferenceContext with the default Substitution.
UnifyIdle ==
    /\ next_unknown = 0
    /\ unsolved = <<>>
    /\ subst_tys = <<>>
    /\ unify_calls = 0
    /\ last_call = <<>>

\* get_shard_index_by_hash has not been called.
ShardIdle ==
    /\ shard_bits = SHARD_BITS
    /\ shard_hash = {}
    /\ shard_index = <<>>

\* The global interner as SymbolInterner::new() leaves it.
TermIdle == dropped = FALSE

SymIdle ==
    /\ sym_data = <<>>
    /\ issued = <<>>

InitIntern == InternInit /\ MirIdle /\ LayIdle /\ TcxIdle /\ CgIdle /\ UnifyIdle /\ ShardIdle /\ SymIdle /\ TermIdle

NextIntern ==
    \/ \E t \in Threads, v \in Vals : CallIntern(t, v) /\ UNCHANGED <<mirVars, layVars, tcxVars, cgVars, unifyVars, shardVars, symVars, termVars>>
    \/ \E t \in Threads, v \in Vals : CallInternList(t, v) /\ UNCHANGED <<mirVars, layVars, tcxVars, cgVars, unifyVars, shardVars, symVars, termVars>>
    \/ \E t \in Threads : LockShard(t) /\ UNCHANGED <<mirVars, layVars, tcxVars, cgVars, unifyVars, shardVars, symVars, termVars>>
    \/ \E t \in Threads : EntryOccupied(t) /\ UNCHANGED <<mirVars, layVars, tcxVars, cgVars, unifyVars, shardVars, symVars, termVars>>
    \/ \E t \in Threads : EntryVacantMake(t) /\ UNCHANGED <<mirVars, layVars, tcxVars, cgVars, unifyVars, shardVars, symVars, termVars>>
    \/ \E t \in Threads : InsertEntry(t) /\ UNCHANGED <<mirVars, layVars, tcxVars, cgVars, unifyVars, shardVars, symVars, termVars>>
    \/ \E t \in Threads : ReturnIntern(t) /\ UNCHANGED <<mirVars, layVars, tcxVars, cgVars, unifyVars, shardVars, symVars, termVars>>

SpecIntern == InitIntern /\ [][NextIntern]_vars

InitShards == InternStart(MaxShardCalls) /\ MirIdle /\ LayIdle /\ TcxIdle /\ CgIdle /\ UnifyIdle /\ ShardIdle /\ SymIdle /\ TermIdle

\* Every operation of a Sharded value, by two threads.
NextShards ==
    \/ NextIntern
    \/ \E t \in Threads, tb \in Tables, op \in LockAllOps :
          CallLockShards(t, tb, op) /\ UNCHANGED <<mirVars, layVars, tcxVars, cgVars, unifyVars, shardVars, symVars, termVars>>
    \/ \E t \in Threads : LockNextShard(t) /\ UNCHANGED <<mirVars, layVars, tcxVars, cgVars, unifyVars, shardVars, symVars, termVars>>
    \/ \E t \in Threads : TryLockNextShard(t) /\ UNCHANGED <<mirVars, layVars, tcxVars, cgVars, unifyVars, shardVars, symVars, termVars>>
    \/ \E t \in Threads : CollectShards(t) /\ UNCHANGED <<mirVars, layVars, tcxVars, cgVars, unifyVars, shardVars, symVars, termVars>>
    \/ \E t \in Threads : DropShards(t) /\ UNCHANGED <<mirVars, layVars, tcxVars, cgVars, unifyVars, shardVars, symVars, termVars>>

SpecShards == InitShards /\ [][NextShards]_vars

\* The references held by a table, over all its shards.
Entries(tb) == UNION {shards[tb][i] : i \in 0 .. (SHARDS - 1)}

\* The arena objects equal to key k.
Allocated(k) == {p \in 1 .. Len(arena) : arena[p] = k}

\* C1: the interned set never holds two distinct entries that compare
\* structurally equal, all completed calls on equal arguments returned the
\* same reference, and that reference is the one object the first call
\* allocated (a later call allocates nothing).
C1_InternUnique ==
    /\ \A tb \in Tables : \A p, q \in Entries(tb) : arena[p] = arena[q] => p = q
    /\ \A k \in Keys : Cardinality(retptr[k]) <= 1
    /\ \A k \in Keys : ncalls[k] >= 1 /\ ~(k.table = "type_list" /\ k.value = 0) =>
          /\ Cardinality(Allocated(k)) = 1
          /\ retptr[k] = Allocated(k)
          /\ retptr[k] \subseteq Entries(k.table)

\* Some argument has been interned twice, the second time from the set.
C1_Witness ==
    \E k \in Keys : k.table = "types" /\ ncalls[k] >= 2 /\ retptr[k] # {}

\* C2: a call that overlapped a call on an equal argument returns the same
\* reference as that call, the value was allocated exactly once, and no two
\* threads are inside the locked section of one shard together.
C2_ConcurrentIntern ==
    /\ \A t \in Threads : pc[t] = "ret" =>
          \A p \in conc[t] :
             /\ result[t] = p
             /\ Cardinality(Allocated(arg[t])) = (IF result[t] = EmptyList THEN 0 ELSE 1)
    /\ \A t, u \in Threads :
          (/\ t # u
           /\ pc[t] \in {"entry", "insert"}
           /\ pc[u] \in {"entry", "insert"}
           /\ arg[t].table = arg[u].table)
          => get_shard_index_by_hash(hashv[t]) # get_shard_index_by_hash(hashv[u])

\* A thread is about to return from a call that overlapped an equal call of
\* the other thread, which has already returned.
C2_Witness ==
    \E t \in Threads : pc[t] = "ret" /\ conc[t] # {} /\ arg[t].table = "types"

\* The shard mutexes thread t holds.
HeldBy(t) == {x \in Tables \X (0 .. (SHARDS - 1)) : locks[x[1]][x[2]] = t}

\* C14 as stated: at every point a thread holds at most one shard mutex,
\* whichever operation of the sharded table it is running.
C14_AtMostOneShardLock ==
    \A t \in Threads : Cardinality(HeldBy(t)) <= 1

\* C14, amended: a thread inside intern / intern_ref holds at most one shard
\* mutex, the one its hash selects, and a thread outside every operation
\* holds none; a thread inside lock_shards, try_lock_shards or len holds the
\* mutexes of shards 0 .. i-1 of one table together, acquired in ascending
\* index order, and all SHARDS of them once the guards are collected.
C14_OneShardExceptLockAll ==
    \A t \in Threads :
        /\ pc[t] = "idle" => HeldBy(t) = {}
        /\ guards[t].op = "none" =>
              /\ Cardinality(HeldBy(t)) <= 1
              /\ HeldBy(t) \subseteq
                    {<<arg[t].table, get_shard_index_by_hash(hashv[t])>>}
        /\ guards[t].op # "none" =>
              /\ guards[t].held = [k \in 1 .. Len(guards[t].held) |-> k - 1]
              /\ HeldBy(t) = {<<guards[t].table, i>> : i \in 0 .. (Len(guards[t].held) - 1)}
              /\ pc[t] = "collected" => Cardinality(HeldBy(t)) = SHARDS

\* One thread holds every shard of a table through lock_shards while the
\* other holds the single shard of its intern call on the other table.
C14_Witness ==
    \E t, u \in Threads :
        /\ pc[t] = "collected" /\ Cardinality(HeldBy(t)) = SHARDS
        /\ pc[u] = "entry" /\ Cardinality(HeldBy(u)) = 1

(***************************************************************************)
(*                 SHARDED TABLES: the choice of a shard                   *)
(***************************************************************************)
\* The bit positions the hashes tried are built from: the lowest bit, the
\* bits around both ends of the window the index is read from, and the
\* highest bits.
HashBits == {0, 51, 52, 55, 56, 57, 61, 63}

\* get_shard_index_by_hash(hash), in a build with the SHARD_BITS drawn
GetShardIndexByHash(hash) ==
    /\ shard_hash' = hash
    /\ shard_index' = <<ShardIndex(hash, shard_bits)>>
    /\ UNCHANGED shard_bits

\* get_shard_by_value(val): shard 0 when there is one shard, or else the
\* shard of make_hash(val)
GetShardByValue(v) ==
    /\ shard_hash' = make_hash(v)
    /\ shard_index' = IF 2 ^ shard_bits = 1 THEN <<0>>
                      ELSE <<ShardIndex(make_hash(v), shard_bits)>>
    /\ UNCHANGED shard_bits

\* Both builds: SHARD_BITS is 0 without cfg(parallel_compiler).
InitShardIndex ==
    /\ InternInit /\ MirIdle /\ LayIdle /\ TcxIdle /\ CgIdle /\ UnifyIdle /\ SymIdle /\ TermIdle
    /\ shard_bits \in {0, SHARD_BITS}
    /\ shard_hash = {}
    /\ shard_index = <<>>

notShard == <<internVars, mirVars, layVars, tcxVars, cgVars, unifyVars, symVars, termVars>>

NextShardIndex ==
    \/ \E hash \in SUBSET HashBits : GetShardIndexByHash(hash) /\ UNCHANGED notShard
    \/ \E v \in Vals : GetShardByValue(v) /\ UNCHANGED notShard

SpecShardIndex == InitShardIndex /\ [][NextShardIndex]_vars

\* The number read from the k bits of the hash that start at position `from`.
BitsAt(hash, from, k) == BitsValue({b - from : b \in {x \in hash : x >= from /\ x < from + k}})

\* C22 as stated: the index is the value of the k bits of the hash at
\* positions 57 .. 57+k, is less than 2^k and is 0 for k = 0.
C22_IndexFromBits57 ==
    shard_index # <<>> =>
        /\ shard_index[1] = BitsAt(shard_hash, hash_len * 8 - 7, shard_bits)
        /\ shard_index[1] < 2 ^ shard_bits
        /\ shard_bits = 0 => shard_index[1] = 0

\* C22, amended: the index is the value of the k bits of the hash just below
\* its 7 highest bits, at positions 57-k .. 56; it is less than 2^k, does
\* not depend on any other bit and is 0 for k = 0.
C22_IndexBelowTop7 ==
    shard_index # <<>> =>
        /\ shard_index[1] = BitsAt(shard_hash, hash_len * 8 - 7 - shard_bits, shard_bits)
        /\ shard_index[1] < 2 ^ shard_bits
        /\ shard_bits = 0 => shard_index[1] = 0

\* A hash with bits inside and on both sides of the window selected shard 17.
C22_Witness ==
    /\ shard_bits = SHARD_BITS
    /\ shard_hash = {0, 51, 52, 56, 57, 63}
    /\ shard_index = <<17>>

(***************************************************************************)
(*                          LAYOUT: PRIMITIVES                             *)
(***************************************************************************)
\* target_lexicon::Triple::pointer_width(): Ok(U16 | U32 | U64) or Err.
Targets == {"U16", "U32", "U64", "Err"}

\* Size::from_bits
Size_from_bits(bits) == bits \div 8 + ((bits % 8) + 7) \div 8

RECURSIVE TrailingZeros(_)
\* while (bytes & 1) == 0 { pow2 += 1; bytes >>= 1 }
TrailingZeros(bytes) == IF bytes % 2 = 1 THEN 0 ELSE 1 + TrailingZeros(bytes \div 2)

\* Align::from_bytes: an alignment is stored as its power of two.
Align_from_bytes(bytes) == IF bytes = 0 THEN 0 ELSE TrailingZeros(bytes)

\* Align::bytes
Align_bytes(a) == 2 ^ a

\* Align::from_bits of the type checker's layout module, which Tcx::layout
\* calls for Never: the alignment of `bits` bits, 8 bits being one byte.  (The
\* function of the same name in mir/src/layout.rs calls itself and never
\* returns; nothing in that crate calls it.  If the type checker's copy did
\* the same, Never would get no layout at all: the behaviours of that
\* variant are among the ones modelled here.)
Align_from_bits(bits) == Align_from_bytes(Size_from_bits(bits))

\* Size::align_to: (bytes + mask) & !mask
Size_align_to(n, a) ==
    LET mask == Align_bytes(a) - 1
    IN  ((n + mask) \div (mask + 1)) * (mask + 1)

\* Ord::max on Align
Align_max(a, b) == IF a >= b THEN a ELSE b

\* Integer::size, in bits
Integer_bits(i) ==
    CASE i = "I8" -> 8 [] i = "I16" -> 16 [] i = "I32" -> 32 [] i = "I64" -> 64 [] i = "I128" -> 128

\* The bit width of a primitive on the target.
Primitive_bits(value, t) ==
    CASE value[1] = "Int" -> Integer_bits(value[2])
      [] value[1] = "F32" -> 32
      [] value[1] = "F64" -> 64
      [] value[1] = "Pointer" ->
            (CASE t = "U16" -> 16 [] t = "U32" -> 32 [] t = "U64" -> 64 [] OTHER -> 32)

\* Primitive::size, in bytes
Primitive_size(value, t) == Size_from_bits(Primitive_bits(value, t))

\* Primitive::align
Primitive_align(value, t) == Align_from_bytes(Primitive_size(value, t))

\* The integer as wide as a pointer.
PtrSizedInt(t, sign) ==
    CASE t = "U16" -> <<"Int", "I16", sign>>
      [] t = "U64" -> <<"Int", "I64", sign>>
      [] OTHER -> <<"Int", "I32", sign>>

\* A u128: the record [p, c] is the number 2^p - 1 + c, so [0, n] is n and
\* [bits, 0] is the largest value of `bits` bits.
Wide(p, c) == [p |-> p, c |-> c]

\* PartialOrd on u128, for numbers whose c is small against 2^p.
WideLeq(x, y) == x.p < y.p \/ (x.p = y.p /\ x.c <= y.c)

\* Scalar::new / scalar_unit: valid_range = 0 ..= (!0 >> (128 - bits))
Scalar_new(value, t) ==
    [value |-> value,
     valid_range |-> [start |-> Wide(0, 0), end |-> Wide(Primitive_bits(value, t), 0)]]

\* scalar.valid_range = start ..= *scalar.valid_range.end()
WithStart(scalar, start) == [scalar EXCEPT !.valid_range.start = start]

\* Niche::available: (start - (end + 1)) mod 2^bits
Niche_available(niche, t) ==
    LET bits == Primitive_bits(niche.scalar.value, t)
        v    == niche.scalar.valid_range
        low(w) == IF w.p >= bits THEN w.c - 1 ELSE 2 ^ w.p - 1 + w.c
        x    == low(v.start) - low(v.end) - 1
    IN  IF x >= 0 THEN Wide(0, x) ELSE Wide(bits, x + 1)

\* Niche::from_scalar: Some(niche) when it has a value to spare.
Niche_from_scalar(t, offset, scalar) ==
    LET niche == [offset |-> offset, scalar |-> scalar]
    IN  IF Niche_available(niche, t) # Wide(0, 0) THEN <<niche>> ELSE <<>>

RECURSIVE MaxNiche(_, _)
\* Iterator::max_by_key(|n| n.available(triple)): the last of the largest.
MaxNiche(niches, t) ==
    IF Len(niches) <= 1 THEN niches
    ELSE LET rest == MaxNiche(Tail(niches), t)
         IN  IF WideLeq(Niche_available(niches[1], t), Niche_available(rest[1], t))
             THEN rest ELSE <<niches[1]>>

Single(i) == [kind |-> "Single", index |-> i, tag |-> <<>>, variants |-> <<>>]

Aggregate == [kind |-> "Aggregate", scalars |-> <<>>, sized |-> TRUE]

Uninhabited == [kind |-> "Uninhabited", scalars |-> <<>>, sized |-> TRUE]

Arbitrary(offsets) == [kind |-> "Arbitrary", offsets |-> offsets, stride |-> 0, count |-> Len(offsets)]

\* Layout::scalar
Layout_scalar(scalar, t) ==
    LET size == Primitive_size(scalar.value, t)
        align == Align_from_bytes(size)
    IN  [size |-> size, align |-> align, stride |-> Size_align_to(size, align),
         abi |-> [kind |-> "Scalar", scalars |-> <<scalar>>, sized |-> TRUE],
         fields |-> [kind |-> "Primitive", offsets |-> <<>>, stride |-> 0, count |-> 0],
         variants |-> Single(0),
         largest_niche |-> Niche_from_scalar(t, 0, scalar)]

\* Layout::UNIT
Layout_UNIT ==
    [size |-> 0, align |-> 0, stride |-> 0, abi |-> Aggregate,
     fields |-> Arbitrary(<<>>), variants |-> Single(0), largest_niche |-> <<>>]

RECURSIVE LastLargest(_)
\* Iterator::max_by_key(|v| v.size): the last of the largest layouts.
LastLargest(lyts) ==
    IF Len(lyts) = 1 THEN lyts[1]
    ELSE LET rest == LastLargest(Tail(lyts))
         IN  IF lyts[1].size <= rest.size THEN rest ELSE lyts[1]

RECURSIVE PackFields(_, _, _, _)
\* Fields placed one after the other without regard to their alignment.
PackFields(lyts, offsets, offset, align) ==
    IF lyts = <<>> THEN <<offsets, offset, align>>
    ELSE PackFields(Tail(lyts), Append(offsets, offset), offset + lyts[1].size,
                    Align_max(align, lyts[1].align))

RECURSIVE PlaceFields(_, _, _, _)
\* The loop of struct_layout: each field goes to the next offset aligned for
\* it.  The result is <<offsets, end offset, align>>.
PlaceFields(lyts, offsets, offset, align) ==
    IF lyts = <<>> THEN <<offsets, offset, align>>
    ELSE LET at == Size_align_to(offset, lyts[1].align)
         IN  PlaceFields(Tail(lyts), Append(offsets, at), at + lyts[1].size,
                         Align_max(align, lyts[1].align))

RECURSIVE FieldNiches(_)
\* The largest_niche of every field that has one, in field order.
FieldNiches(lyts) ==
    IF lyts = <<>> THEN <<>> ELSE lyts[1].largest_niche \o FieldNiches(Tail(lyts))

\* for offset in offsets { *offset = *offset + tag_size }
ShiftVariant(v, tag_size) ==
    IF v.fields.kind = "Arbitrary"
    THEN [v EXCEPT !.fields.offsets = [i \in 1 .. Len(@) |-> @[i] + tag_size]]
    ELSE v

\* variant.variants = Variants::Single { index: i }, then the shift by the tag
IndexedShifted(lyts, tag_size) ==
    [i \in 1 .. Len(lyts) |-> ShiftVariant([lyts[i] EXCEPT !.variants = Single(i - 1)], tag_size)]


(***************************************************************************)
(*                  LAYOUT: Tcx::layout (check/src/tcx.rs)                 *)
(***************************************************************************)
\* The types without components that Tcx::layout accepts.
TcxLeafTys ==
    {<<"Never">>, <<"Bool">>, <<"Str">>, <<"TypeId">>, <<"Ref">>, <<"Slice">>,
     <<"Func">>, <<"Object">>, <<"Param">>, <<"VInt">>}
    \cup {<<k, n>> : k \in {"Int", "UInt"}, n \in {0, 8, 16, 32, 64, 128}}
    \cup {<<"Float", n>> : n \in {0, 32, 64}}

\* The leaves that stand for the others as later components of a type.
TcxFieldTys == {<<"Bool">>, <<"UInt", 32>>}

\* Integer of n bits
IntegerOf(n) ==
    CASE n = 8 -> "I8" [] n = 16 -> "I16" [] n = 32 -> "I32" [] n = 64 -> "I64" [] n = 128 -> "I128"

\* Tcx::scalar_pair
Tcx_scalar_pair(a, b, t) ==
    LET b_align  == Primitive_align(b.value, t)
        b_offset == Size_align_to(Primitive_size(a.value, t), b_align)
        align    == Align_max(Primitive_align(a.value, t), b_align)
        size     == Primitive_size(a.value, t) + Primitive_size(b.value, t)
        stride   == Size_align_to(b_offset + Primitive_size(b.value, t), align)
    IN  [size |-> size, align |-> align, stride |-> stride,
         abi |-> [kind |-> "ScalarPair", scalars |-> <<a, b>>, sized |-> TRUE],
         fields |-> Arbitrary(<<0, b_offset>>),
         variants |-> Single(0),
         largest_niche |->
             MaxNiche(Niche_from_scalar(t, b_offset, b) \o Niche_from_scalar(t, 0, a), t)]

\* Tcx::struct_layout
Tcx_struct_layout(fields, t) ==
    LET placed == PlaceFields(fields, <<>>, 0, Align_from_bytes(1))
        size   == placed[2]
        align  == placed[3]
    IN  [size |-> size, align |-> align, stride |-> Size_align_to(size, align),
         abi |-> Aggregate,
         fields |-> Arbitrary(placed[1]),
         variants |-> Single(0),
         largest_niche |-> MaxNiche(FieldNiches(fields), t)]

\* The tag integer of Tcx::enum_layout, by the byte size of the tag slot.
Tcx_tag_integer(bytes) ==
    CASE bytes = 1 -> "I8" [] bytes = 2 -> "I16" [] bytes = 4 -> "I32" [] bytes = 8 -> "I64"
      [] OTHER -> "I128"

\* Tcx::enum_layout
Tcx_enum_layout(variants, t) ==
    IF variants = <<>> THEN
        [size |-> 0, align |-> Align_from_bytes(1), stride |-> 0, abi |-> Aggregate,
         fields |-> Arbitrary(<<>>), variants |-> Single(0), largest_niche |-> <<>>]
    ELSE IF Len(variants) = 1 THEN variants[1]
    ELSE
        LET largest  == LastLargest(variants)
            align    == largest.align
            tag_size == Size_align_to(Size_from_bits(Len(variants)), align)
            tag      == [value |-> <<"Int", Tcx_tag_integer(tag_size), FALSE>>,
                         valid_range |-> [start |-> Wide(0, 0), end |-> Wide(128, 0)]]
            size     == largest.size + tag_size
        IN  [size |-> size, align |-> align, stride |-> Size_align_to(size, align),
             abi |-> Aggregate,
             fields |-> Arbitrary(<<0, tag_size>>),
             variants |-> [kind |-> "Multiple", index |-> 0, tag |-> <<tag>>,
                           variants |-> IndexedShifted(variants, tag_size)],
             largest_niche |-> <<>>]

\* An array that takes the element's size for its stride.
ArrayOfSizes(of, len) ==
    [size |-> of.size * len, align |-> of.align, stride |-> of.size * len,
     abi |-> Aggregate,
     fields |-> [kind |-> "Array", offsets |-> <<>>, stride |-> of.size, count |-> len],
     variants |-> Single(0),
     largest_niche |-> IF len # 0 THEN of.largest_niche ELSE <<>>]

\* Tcx::layout, Type::Array(of, len)
Tcx_array(of, len) ==
    [size |-> of.stride * len, align |-> of.align, stride |-> of.stride * len,
     abi |-> Aggregate,
     fields |-> [kind |-> "Array", offsets |-> <<>>, stride |-> of.stride, count |-> len],
     variants |-> Single(0),
     largest_niche |-> IF len # 0 THEN of.largest_niche ELSE <<>>]

\* Tcx::layout on a type without components
Tcx_leaf(ty, t) ==
    LET scalar(value) == Layout_scalar(Scalar_new(value, t), t)
        nonnull == WithStart(Scalar_new(<<"Pointer">>, t), Wide(0, 1))
        ptrpair == Tcx_scalar_pair(nonnull, Scalar_new(PtrSizedInt(t, FALSE), t), t)
    IN  CASE ty[1] = "Never" ->
                [size |-> 0, align |-> Align_from_bits(8), stride |-> 0, abi |-> Uninhabited,
                 fields |-> [kind |-> "Primitive", offsets |-> <<>>, stride |-> 0, count |-> 0],
                 variants |-> Single(0), largest_niche |-> <<>>]
          [] ty[1] = "Bool" ->
                Layout_scalar([value |-> <<"Int", "I8", FALSE>>,
                               valid_range |-> [start |-> Wide(0, 0), end |-> Wide(0, 1)]], t)
          [] ty[1] = "Int" ->
                IF ty[2] = 0 THEN scalar(PtrSizedInt(t, TRUE))
                ELSE scalar(<<"Int", IntegerOf(ty[2]), TRUE>>)
          [] ty[1] = "UInt" ->
                IF ty[2] = 0 THEN scalar(PtrSizedInt(t, FALSE))
                ELSE scalar(<<"Int", IntegerOf(ty[2]), FALSE>>)
          [] ty[1] = "VInt" -> scalar(PtrSizedInt(t, TRUE))
          [] ty[1] = "Float" ->
                IF ty[2] = 64 \/ (ty[2] = 0 /\ t = "U64") THEN scalar(<<"F64">>)
                ELSE scalar(<<"F32">>)
          [] ty[1] = "TypeId" -> scalar(PtrSizedInt(t, FALSE))
          [] ty[1] = "Str" -> ptrpair
          [] ty[1] = "Slice" -> ptrpair
          [] ty[1] = "Ref" -> Layout_scalar(Scalar_new(<<"Pointer">>, t), t)
          [] ty[1] = "Func" -> Layout_scalar(nonnull, t)
          [] ty[1] \in {"Object", "Param"} ->
                LET data == [Scalar_new(<<"Pointer">>, t) EXCEPT
                                !.valid_range = [start |-> Wide(0, 1), end |-> Wide(0, 0)]]
                    meta == [Scalar_new(<<"Pointer">>, t) EXCEPT
                                !.valid_range = [start |-> Wide(0, 1), end |-> Wide(0, 1)]]
                IN  Tcx_scalar_pair(data, meta, t)

(***************************************************************************)
(*             LAYOUT: layout_of_query (mir/src/layout.rs)                 *)
(***************************************************************************)
\* The scalars a Unit type's repr may name.
ReprScalars == {<<"Int", "I8", FALSE>>, <<"Int", "I16", TRUE>>, <<"Int", "I32", TRUE>>,
                <<"Int", "I64", FALSE>>, <<"Int", "I128", FALSE>>, <<"F32">>, <<"F64">>,
                <<"Pointer">>}

\* The types without components of layout_of_query, and the layouts the
\* module's helpers build directly.
MirLeafTys ==
    {<<"Unit">>, <<"Var">>, <<"Ptr">>, <<"Func">>, <<"Clos">>, <<"slice_layout">>, <<"type_info">>,
     <<"closure">>, <<"reference">>, <<"ptr_sized_int", TRUE>>, <<"ptr_sized_int", FALSE>>}
    \cup {<<"Unit", p>> : p \in ReprScalars}

MirFieldTys == {<<"Unit", <<"Int", "I8", FALSE>>>>, <<"Unit", <<"Int", "I32", TRUE>>>>}

\* The repr attributes of a type that layout_of_query reads after the match.
Reprs ==
    {[uninhabited |-> u, valid_range_start |-> st, valid_range_end |-> <<>>] :
        u \in BOOLEAN, st \in {<<>>, <<Wide(0, 1)>>}}

NoRepr == [uninhabited |-> FALSE, valid_range_start |-> <<>>, valid_range_end |-> <<>>]

\* The reprs tried on the types that have components.
CompositeReprs == {r \in Reprs : r.valid_range_start = <<>>}

\* scalar_pair
Mir_scalar_pair(a, b, t) ==
    LET b_align  == Primitive_align(b.value, t)
        align    == Align_max(Primitive_align(a.value, t), b_align)
        b_offset == Size_align_to(Primitive_size(a.value, t), b_align)
        size     == b_offset + Primitive_size(b.value, t)
    IN  [size |-> size, align |-> align, stride |-> Size_align_to(size, align),
         abi |-> [kind |-> "ScalarPair", scalars |-> <<a, b>>, sized |-> TRUE],
         fields |-> Arbitrary(<<0, b_offset>>),
         variants |-> Single(0),
         largest_niche |->
             MaxNiche(Niche_from_scalar(t, b_offset, b) \o Niche_from_scalar(t, 0, a), t)]

\* slice_layout
Mir_slice_layout(t) ==
    LET len    == Scalar_new(PtrSizedInt(t, FALSE), t)
        ptr    == WithStart(Scalar_new(<<"Pointer">>, t), Wide(0, 1))
        align  == Primitive_align(ptr.value, t)
        offset == Primitive_size(ptr.value, t)
        size   == offset * 2
    IN  [size |-> size, align |-> align, stride |-> Size_align_to(size, align),
         abi |-> [kind |-> "ScalarPair", scalars |-> <<ptr, len>>, sized |-> TRUE],
         fields |-> Arbitrary(<<0, offset>>),
         variants |-> Single(0),
         largest_niche |-> Niche_from_scalar(t, offset, ptr)]

\* struct_layout
Mir_struct_layout(lyts, t) ==
    LET abi ==
            IF Len(lyts) = 2 /\ lyts[1].abi.kind = "Scalar" /\ lyts[2].abi.kind = "Scalar"
            THEN Mir_scalar_pair(lyts[1].abi.scalars[1], lyts[2].abi.scalars[1], t).abi
            ELSE IF Len(lyts) = 1 /\ lyts[1].abi.kind \in {"Scalar", "ScalarPair"}
            THEN lyts[1].abi
            ELSE Aggregate
        placed == PlaceFields(lyts, <<>>, 0, 0)
        size   == placed[2]
        align  == placed[3]
    IN  [size |-> size, align |-> align, stride |-> Size_align_to(size, align),
         abi |-> abi,
         fields |-> Arbitrary(placed[1]),
         variants |-> Single(0),
         largest_niche |-> MaxNiche(FieldNiches(lyts), t)]

\* The tag integer of enum_layout, by the byte size of the tag slot.
Mir_tag_integer(bytes) ==
    CASE bytes = 1 -> "I8" [] bytes = 2 -> "I16" [] bytes \in {3, 4} -> "I32"
      [] bytes \in {5, 6, 7, 8} -> "I64" [] OTHER -> "I128"

\* enum_layout
Mir_enum_layout(lyts, t) ==
    IF lyts = <<>> THEN Layout_UNIT
    ELSE IF Len(lyts) = 1 THEN lyts[1]
    ELSE
        LET largest  == LastLargest(lyts)
            align    == largest.align
            tag_size == Size_align_to(Size_from_bits(Len(lyts)), align)
            tag      == [value |-> <<"Int", Mir_tag_integer(tag_size), FALSE>>,
                         valid_range |-> [start |-> Wide(0, 0), end |-> Wide(0, Len(lyts) - 1)]]
            size     == largest.size + tag_size
        IN  [size |-> size, align |-> align, stride |-> Size_align_to(size, align),
             abi |-> IF Primitive_size(tag.value, t) = size
                     THEN [kind |-> "Scalar", scalars |-> <<tag>>, sized |-> TRUE]
                     ELSE Aggregate,
             fields |-> IF size = tag_size THEN Arbitrary(<<0>>) ELSE Arbitrary(<<0, tag_size>>),
             variants |-> [kind |-> "Multiple", index |-> 0, tag |-> <<tag>>,
                           variants |-> IndexedShifted(lyts, tag_size)],
             largest_niche |-> <<>>]

RECURSIVE MaxSize(_)
\* fields.iter().map(|l| l.size).max()
MaxSize(lyts) ==
    IF Len(lyts) = 1 THEN lyts[1].size
    ELSE LET m == MaxSize(Tail(lyts)) IN IF lyts[1].size > m THEN lyts[1].size ELSE m

\* layout_of_query, TypeKind::Or(fields, false): a union
Mir_union(lyts) ==
    LET size  == MaxSize(lyts)
        align == Align_from_bytes(size)
    IN  [size |-> size, align |-> align, stride |-> Size_align_to(size, align),
         abi |-> Aggregate,
         fields |-> [kind |-> "Union", offsets |-> <<>>, stride |-> 0, count |-> Len(lyts)],
         variants |-> Single(0),
         largest_niche |-> <<>>]

\* layout_of_query, TypeKind::Array(of, len)
Mir_array(of, len) ==
    [size |-> of.stride * len, align |-> of.align, stride |-> of.stride * len,
     abi |-> Aggregate,
     fields |-> [kind |-> "Array", offsets |-> <<>>, stride |-> of.stride, count |-> len],
     variants |-> Single(0),
     largest_niche |-> <<>>]

\* layout_of_query and the helpers of the module on a type without components
Mir_leaf(ty, t) ==
    LET nonnull == WithStart(Scalar_new(<<"Pointer">>, t), Wide(0, 1))
    IN  CASE ty[1] = "Unit" ->
                IF Len(ty) = 2 THEN Layout_scalar(Scalar_new(ty[2], t), t) ELSE Layout_UNIT
          [] ty[1] = "Var" -> Layout_UNIT
          [] ty[1] = "Ptr" -> Layout_scalar(Scalar_new(<<"Pointer">>, t), t)
          [] ty[1] = "Func" -> Layout_scalar(nonnull, t)
          [] ty[1] = "Clos" -> Mir_scalar_pair(nonnull, nonnull, t)
          [] ty[1] = "closure" -> Mir_scalar_pair(nonnull, nonnull, t)
          [] ty[1] = "reference" -> Layout_scalar(nonnull, t)
          [] ty[1] = "slice_layout" -> Mir_slice_layout(t)
          [] ty[1] = "ptr_sized_int" -> Layout_scalar(Scalar_new(PtrSizedInt(t, ty[2]), t), t)
          [] ty[1] = "type_info" ->
                LET uint == Layout_scalar(Scalar_new(PtrSizedInt(t, FALSE), t), t)
                IN  [size |-> uint.size, align |-> uint.align, stride |-> uint.stride,
                     abi |-> Aggregate, fields |-> Arbitrary(<<0>>),
                     variants |-> Single(0), largest_niche |-> <<>>]

\* The end of layout_of_query: the type's repr overrides the ABI and narrows
\* the valid range of a scalar.
ApplyRepr(layout, repr) ==
    LET l1 == IF repr.uninhabited THEN [layout EXCEPT !.abi = Uninhabited] ELSE layout
        l2 == IF repr.valid_range_start # <<>> /\ l1.abi.kind = "Scalar"
              THEN [l1 EXCEPT !.abi.scalars[1].valid_range.start = repr.valid_range_start[1]]
              ELSE l1
    IN  IF repr.valid_range_end # <<>> /\ l2.abi.kind = "Scalar"
        THEN [l2 EXCEPT !.abi.scalars[1].valid_range.end = repr.valid_range_end[1]]
        ELSE l2


(***************************************************************************)
(*                     LAYOUT: computing layouts of types                  *)
(***************************************************************************)
\* A type is laid out bottom-up: `stack` holds the layouts of the components
\* computed so far, each with the operation that made it and the number of
\* type nodes below it.
Nodes(st) == IF st = <<>> THEN 0 ELSE st[Len(st)].sum

Entry(lay, made, below) == [lay |-> lay, made |-> made, sum |-> below]

\* The last k entries of the stack, in order.
TopK(k) == SubSeq(stack, Len(stack) - k + 1, Len(stack))

Layouts(es) == [i \in 1 .. Len(es) |-> es[i].lay]

\* The stack with its last k entries replaced by one.
Replace(k, lay, made, weight) ==
    Append(SubSeq(stack, 1, Len(stack) - k), Entry(lay, made, Nodes(stack) + weight))

\* A leaf outside the field types is laid out on its own or under one more
\* type: it takes all the nodes but one.
LeafWeight(ty, fieldTys) == IF ty \in fieldTys THEN 1 ELSE MaxNodes - 1

LayoutInit ==
    /\ triple \in Targets
    /\ engine \in {"tcx", "mir"}
    /\ stack = <<>>

\* Tcx::layout on a type without components
TcxLayoutLeaf(ty) ==
    /\ engine = "tcx"
    /\ Nodes(stack) < MaxNodes
    /\ stack = <<>> \/ ty \in TcxFieldTys
    /\ Len(stack) < MaxFields
    /\ stack' = Replace(0, Tcx_leaf(ty, triple), "leaf", LeafWeight(ty, TcxFieldTys))
    /\ UNCHANGED <<triple, engine>>

\* Tcx::layout, Type::Array
TcxLayoutArray(len) ==
    /\ engine = "tcx"
    /\ stack # <<>>
    /\ Nodes(stack) < MaxNodes
    /\ stack' = Replace(1, Tcx_array(stack[Len(stack)].lay, len), "array", 1)
    /\ UNCHANGED <<triple, engine>>

\* Tcx::layout, Type::Tuple and Type::Struct; also the layout of one variant
\* of an enum.
TcxLayoutStruct(k) ==
    /\ engine = "tcx"
    /\ k <= Len(stack)
    /\ Nodes(stack) < MaxNodes
    /\ k > 0 \/ Len(stack) < MaxFields
    /\ stack' = Replace(k, Tcx_struct_layout(Layouts(TopK(k)), triple), "struct", 1)
    /\ UNCHANGED <<triple, engine>>

\* Tcx::layout, Type::Enum: every variant is a struct_layout.
TcxLayoutEnum(k) ==
    /\ engine = "tcx"
    /\ k <= Len(stack)
    /\ Nodes(stack) < MaxNodes
    /\ k > 0 \/ Len(stack) < MaxFields
    /\ \A i \in 1 .. k : TopK(k)[i].made = "struct"
    /\ stack' = Replace(k, Tcx_enum_layout(Layouts(TopK(k)), triple), "enum", 1)
    /\ UNCHANGED <<triple, engine>>

\* layout_of_query on a type without components
MirLayoutLeaf(ty, repr) ==
    /\ engine = "mir"
    /\ Nodes(stack) < MaxNodes
    /\ stack = <<>> \/ (ty \in MirFieldTys /\ repr = NoRepr)
    /\ Len(stack) < MaxFields
    /\ ty[1] \in {"Unit", "Var", "Ptr", "Func", "Clos"} \/ repr = NoRepr
    /\ stack' = Replace(0, ApplyRepr(Mir_leaf(ty, triple), repr), "leaf",
                        LeafWeight(ty, MirFieldTys))
    /\ UNCHANGED <<triple, engine>>

\* layout_of_query, TypeKind::Array
MirLayoutArray(len, repr) ==
    /\ engine = "mir"
    /\ stack # <<>>
    /\ Nodes(stack) < MaxNodes
    /\ stack' = Replace(1, ApplyRepr(Mir_array(stack[Len(stack)].lay, len), repr), "array", 1)
    /\ UNCHANGED <<triple, engine>>

\* layout_of_query, TypeKind::And
MirLayoutAnd(k, repr) ==
    /\ engine = "mir"
    /\ k <= Len(stack)
    /\ Nodes(stack) < MaxNodes
    /\ k > 0 \/ Len(stack) < MaxFields
    /\ stack' = Replace(k, ApplyRepr(Mir_struct_layout(Layouts(TopK(k)), triple), repr), "struct", 1)
    /\ UNCHANGED <<triple, engine>>

\* layout_of_query, TypeKind::Or(fields, tagged)
MirLayoutOr(k, tagged, repr) ==
    /\ engine = "mir"
    /\ k <= Len(stack)
    /\ Nodes(stack) < MaxNodes
    /\ tagged \/ k >= 1
    /\ k > 0 \/ Len(stack) < MaxFields
    /\ stack' = Replace(k, ApplyRepr(IF tagged THEN Mir_enum_layout(Layouts(TopK(k)), triple)
                                     ELSE Mir_union(Layouts(TopK(k))), repr),
                        IF tagged THEN "enum" ELSE "union", 1)
    /\ UNCHANGED <<triple, engine>>

InitLayout == InternInit /\ MirIdle /\ LayoutInit /\ TcxIdle /\ CgIdle /\ UnifyIdle /\ ShardIdle /\ SymIdle /\ TermIdle

NextLayout ==
    \/ \E ty \in TcxLeafTys : TcxLayoutLeaf(ty) /\ UNCHANGED <<internVars, mirVars, tcxVars, cgVars, unifyVars, shardVars, symVars, termVars>>
    \/ \E len \in {0, MaxArrayLen} : TcxLayoutArray(len) /\ UNCHANGED <<internVars, mirVars, tcxVars, cgVars, unifyVars, shardVars, symVars, termVars>>
    \/ \E k \in 0 .. MaxNodes : TcxLayoutStruct(k) /\ UNCHANGED <<internVars, mirVars, tcxVars, cgVars, unifyVars, shardVars, symVars, termVars>>
    \/ \E k \in 0 .. MaxNodes : TcxLayoutEnum(k) /\ UNCHANGED <<internVars, mirVars, tcxVars, cgVars, unifyVars, shardVars, symVars, termVars>>
    \/ \E ty \in MirLeafTys, repr \in Reprs :
           MirLayoutLeaf(ty, repr) /\ UNCHANGED <<internVars, mirVars, tcxVars, cgVars, unifyVars, shardVars, symVars, termVars>>
    \/ \E len \in {0, MaxArrayLen}, repr \in CompositeReprs :
           MirLayoutArray(len, repr) /\ UNCHANGED <<internVars, mirVars, tcxVars, cgVars, unifyVars, shardVars, symVars, termVars>>
    \/ \E k \in 0 .. MaxNodes, repr \in CompositeReprs :
           MirLayoutAnd(k, repr) /\ UNCHANGED <<internVars, mirVars, tcxVars, cgVars, unifyVars, shardVars, symVars, termVars>>
    \/ \E k \in 0 .. MaxNodes, tagged \in BOOLEAN, repr \in CompositeReprs :
           MirLayoutOr(k, tagged, repr) /\ UNCHANGED <<internVars, mirVars, tcxVars, cgVars, unifyVars, shardVars, symVars, termVars>>

SpecLayout == InitLayout /\ [][NextLayout]_vars

\* C9: every layout produced by either layout engine has stride equal to
\* its size rounded up to its alignment, an alignment of at least one byte,
\* and, when its size is zero, an ABI of Aggregate or Uninhabited.
C9_LayoutInvariants ==
    \A i \in 1 .. Len(stack) :
        LET l == stack[i].lay
        IN  /\ l.stride = Size_align_to(l.size, l.align)
            /\ Align_bytes(l.align) >= 1
            /\ l.size = 0 => l.abi.kind \in {"Aggregate", "Uninhabited"}

\* An array of a padded struct (size 5, stride 8) has been laid out.
C9_Witness ==
    \E i \in 1 .. Len(stack) :
        /\ stack[i].made = "array"
        /\ stack[i].lay.fields.count = 2
        /\ stack[i].lay.fields.stride = 8
        /\ stack[i].lay.size = 16


(***************************************************************************)
(*                   LAYOUT: structs and enums                             *)
(***************************************************************************)
\* A struct or an enum is laid out from the layouts of its fields.  The
\* stack holds the variants laid out so far, then the field layouts of the
\* variant in progress; every entry keeps the layouts it was computed from
\* and whether the repr of its type says uninhabited.  The fields of the
\* whole type number at most MaxVariantFields; an enum has any of 0, 1 or
\* MaxUnitVariants more variants without fields.

\* The field types: one byte, four bytes, an empty array of four-byte
\* elements and a pair of pointer-sized scalars.
AdtFieldTys ==
    IF engine = "tcx"
    THEN {<<"Bool">>, <<"UInt", 32>>, <<"Array", <<"UInt", 32>>, 0>>, <<"Str">>}
    ELSE {<<"Unit", <<"Int", "I8", FALSE>>>>, <<"Unit", <<"Int", "I32", TRUE>>>>,
          <<"Array", <<"Unit", <<"Int", "I32", TRUE>>>>, 0>>, <<"Clos">>}

\* self.layout(f.ty) / db.layout_of(f) on a field type
LayoutOfField(ty) ==
    IF engine = "tcx"
    THEN IF ty[1] = "Array" THEN Tcx_array(Tcx_leaf(ty[2], triple), ty[3])
         ELSE Tcx_leaf(ty, triple)
    ELSE IF ty[1] = "Array" THEN Mir_array(Mir_leaf(ty[2], triple), ty[3])
         ELSE Mir_leaf(ty, triple)

\* Tcx::layout on Tuple / Struct, layout_of_query on And
LayoutOfStruct(fields, repr) ==
    IF engine = "tcx" THEN Tcx_struct_layout(fields, triple)
    ELSE ApplyRepr(Mir_struct_layout(fields, triple), repr)

\* Tcx::layout on Enum, layout_of_query on Or(variants, true)
LayoutOfEnum(variants, repr) ==
    IF engine = "tcx" THEN Tcx_enum_layout(variants, triple)
    ELSE ApplyRepr(Mir_enum_layout(variants, triple), repr)

\* The reprs a struct or enum type may carry: none in the type checker.
AdtReprs == IF engine = "tcx" THEN {NoRepr} ELSE CompositeReprs

AdtEntry(lay, made, of, repr) ==
    [lay |-> lay, made |-> made, of |-> of, uninhabited |-> repr.uninhabited]

\* What the entry on top of the stack is.
LastMade(st) == IF st = <<>> THEN "none" ELSE st[Len(st)].made

\* The entries of the variant in progress: the trailing field layouts.
RECURSIVE Pending(_)
Pending(st) ==
    IF LastMade(st) # "field" THEN <<>>
    ELSE Append(Pending(SubSeq(st, 1, Len(st) - 1)), st[Len(st)])

RECURSIVE FieldsUsed(_)
\* The fields of the type so far, over all its variants.
FieldsUsed(st) ==
    IF st = <<>> THEN 0
    ELSE (IF st[1].made = "field" THEN 1 ELSE 0) + Len(st[1].of) + FieldsUsed(Tail(st))

\* The layout of one more field of the variant in progress is computed.
FieldLayout(ty) ==
    /\ LastMade(stack) # "enum"
    /\ FieldsUsed(stack) < MaxVariantFields
    /\ stack' = Append(stack, AdtEntry(LayoutOfField(ty), "field", <<>>, NoRepr))
    /\ UNCHANGED <<triple, engine>>

\* struct_layout over the fields in progress: a tuple, a struct, or one
\* variant of an enum.
StructLayout(repr) ==
    LET fields == Layouts(Pending(stack))
        k      == Len(fields)
    IN  /\ LastMade(stack) # "enum"
        /\ k >= 1 \/ stack = <<>>
        /\ stack' = Append(SubSeq(stack, 1, Len(stack) - k),
                           AdtEntry(LayoutOfStruct(fields, repr), "struct", fields, repr))
        /\ UNCHANGED <<triple, engine>>

\* enum_layout over the variants laid out so far and `units` more variants
\* without fields.
EnumLayout(units, repr) ==
    LET unit     == LayoutOfStruct(<<>>, NoRepr)
        variants == Layouts(stack) \o [i \in 1 .. units |-> unit]
    IN  /\ \A i \in 1 .. Len(stack) : stack[i].made = "struct"
        /\ stack' = <<AdtEntry(LayoutOfEnum(variants, repr), "enum", variants, repr)>>
        /\ UNCHANGED <<triple, engine>>

InitAdt == InternInit /\ MirIdle /\ LayoutInit /\ TcxIdle /\ CgIdle /\ UnifyIdle /\ ShardIdle /\ SymIdle /\ TermIdle

NextAdt ==
    \/ \E ty \in AdtFieldTys : FieldLayout(ty) /\ UNCHANGED <<internVars, mirVars, tcxVars, cgVars, unifyVars, shardVars, symVars, termVars>>
    \/ \E repr \in AdtReprs : StructLayout(repr) /\ UNCHANGED <<internVars, mirVars, tcxVars, cgVars, unifyVars, shardVars, symVars, termVars>>
    \/ \E units \in {0, 1, MaxUnitVariants}, repr \in AdtReprs :
           EnumLayout(units, repr) /\ UNCHANGED <<internVars, mirVars, tcxVars, cgVars, unifyVars, shardVars, symVars, termVars>>

SpecAdt == InitAdt /\ [][NextAdt]_vars

\* The structs and the enums laid out so far.
StructEntries == {i \in 1 .. Len(stack) : stack[i].made = "struct"}

EnumEntries == {i \in 1 .. Len(stack) : stack[i].made = "enum"}

RECURSIVE MaxAlign(_)
\* The largest alignment among layouts.
MaxAlign(lyts) ==
    IF lyts = <<>> THEN 0 ELSE Align_max(lyts[1].align, MaxAlign(Tail(lyts)))

\* The offset at which the variants of a tagged enum begin: the second field
\* of the layout, or its whole size when the tag is its only field.
EnumTagSize(lay) ==
    IF Len(lay.fields.offsets) >= 2 THEN lay.fields.offsets[2] ELSE lay.size

\* The least number of bits that tell n values apart.
BitsFor(n) == CHOOSE b \in 0 .. 8 : 2 ^ b >= n /\ \A c \in 0 .. (b - 1) : 2 ^ c < n

\* The byte size of the smallest integer class of at least `bits` bits.
IntegerClassBytes(bits) ==
    CHOOSE c \in {1, 2, 4, 8, 16} : 8 * c >= bits /\ \A d \in {1, 2, 4, 8, 16} : 8 * d >= bits => c <= d

\* C15: an enum with fewer than two variants carries no tag; with zero
\* variants its layout has size 0 and ABI Uninhabited, with exactly one
\* variant it is that variant's struct layout.
C15_FewVariantsNoTag ==
    \A i \in EnumEntries :
        LET e == stack[i]
        IN  /\ Len(e.of) < 2 => e.lay.variants.kind = "Single"
            /\ Len(e.of) = 0 => e.lay.size = 0 /\ e.lay.abi.kind = "Uninhabited"
            /\ Len(e.of) = 1 /\ ~e.uninhabited => e.lay = e.of[1]

\* C16: for an enum with two or more variants, align is the largest align
\* of the variant layouts, size is the largest variant size plus tag_size,
\* and stride is size rounded up to align.
C16_EnumAlignAndSize ==
    \A i \in EnumEntries :
        LET e == stack[i]
        IN  Len(e.of) >= 2 =>
               /\ e.lay.align = MaxAlign(e.of)
               /\ e.lay.size = MaxSize(e.of) + EnumTagSize(e.lay)
               /\ e.lay.stride = Size_align_to(e.lay.size, e.lay.align)

\* C17: for an enum with n >= 2 variants, tag_size is the size of the
\* smallest power-of-two integer class (1, 2, 4, 8 or 16 bytes) that holds
\* the bits needed for n variants; the tag is at offset 0 and every field
\* offset inside every variant is its offset in the variant's own layout
\* plus tag_size.
C17_TagSizeIsIntegerClass ==
    \A i \in EnumEntries :
        LET e == stack[i]
            n == Len(e.of)
        IN  n >= 2 =>
               /\ EnumTagSize(e.lay) = IntegerClassBytes(BitsFor(n))
               /\ e.lay.fields.offsets[1] = 0
               /\ e.lay.variants.kind = "Multiple"
               /\ \A v \in 1 .. n :
                     e.lay.variants.variants[v].fields.offsets =
                        [j \in 1 .. Len(e.of[v].fields.offsets) |->
                            e.of[v].fields.offsets[j] + EnumTagSize(e.lay)]

\* C18: in every enum layout with two or more variants the integer chosen
\* for the tag is no wider than tag_size, the offset at which the variants'
\* fields begin.
C18_TagFitsTagSlot ==
    \A i \in EnumEntries :
        LET e == stack[i]
        IN  Len(e.of) >= 2 =>
               Primitive_size(e.lay.variants.tag[1].value, triple) <= EnumTagSize(e.lay)

\* C19: struct_layout puts field 1 at offset 0 and every later field at the
\* smallest multiple of its align that is not below the end of the field
\* before it, so fields never overlap; align is the largest field align and
\* at least one byte, size is the end of the last field, and stride is size
\* rounded up to align.
C19_StructFieldPlacement ==
    \A i \in StructEntries :
        LET f == stack[i].of
            l == stack[i].lay
            o == l.fields.offsets
            n == Len(f)
        IN  /\ Len(o) = n
            /\ n >= 1 => o[1] = 0
            /\ \A j \in 2 .. n :
                  LET end == o[j - 1] + f[j - 1].size
                  IN  /\ o[j] % Align_bytes(f[j].align) = 0
                      /\ o[j] >= end
                      /\ o[j] - end < Align_bytes(f[j].align)
            /\ \A j, k \in 1 .. n : j < k => o[j] + f[j].size <= o[k]
            /\ l.align = MaxAlign(f)
            /\ Align_bytes(l.align) >= 1
            /\ l.size = (IF n = 0 THEN 0 ELSE o[n] + f[n].size)
            /\ l.stride = Size_align_to(l.size, l.align)

\* A struct of a one-byte field and a four-byte field: the second field is
\* at offset 4, after three bytes of padding.
C19_Witness ==
    \E i \in StructEntries :
        /\ Len(stack[i].of) = 2
        /\ stack[i].of[1].size = 1
        /\ stack[i].of[2].size = 4
        /\ stack[i].lay.fields.offsets = <<0, 4>>
        /\ stack[i].lay.size = 8

\* C20: the ABI class of a struct or tuple layout is Scalar when it has
\* exactly one field and that field's ABI is Scalar, ScalarPair when it has
\* exactly two fields and both are Scalar, and Aggregate{sized: true}
\* otherwise.
C20_StructAbiClass ==
    \A i \in StructEntries :
        LET f == stack[i].of
            l == stack[i].lay
        IN  ~stack[i].uninhabited =>
               IF Len(f) = 1 /\ f[1].abi.kind = "Scalar"
               THEN l.abi = f[1].abi
               ELSE IF Len(f) = 2 /\ f[1].abi.kind = "Scalar" /\ f[2].abi.kind = "Scalar"
               THEN l.abi.kind = "ScalarPair"
               ELSE l.abi = Aggregate

(***************************************************************************)
(*                       LAYOUT: reference types                           *)
(***************************************************************************)
\* The types a reference points to.
RefTargets == {<<"Bool">>, <<"UInt", 32>>, <<"Str">>}

\* Tcx::layout on Type::Ref(mut, to): the entry keeps the type laid out.
TcxLayoutRef(mut, to) ==
    /\ engine = "tcx"
    /\ Len(stack) < MaxRefs
    /\ stack' = Append(stack, AdtEntry(Tcx_leaf(<<"Ref">>, triple), "ref",
                                       <<"Ref", mut, to>>, NoRepr))
    /\ UNCHANGED <<triple, engine>>

\* layout_of_query on TypeKind::Ptr(elem), whose type carries the repr.
MirLayoutPtr(elem, repr) ==
    /\ engine = "mir"
    /\ Len(stack) < MaxRefs
    /\ stack' = Append(stack, AdtEntry(ApplyRepr(Mir_leaf(<<"Ptr">>, triple), repr), "ref",
                                       <<"Ptr", elem, repr>>, repr))
    /\ UNCHANGED <<triple, engine>>

InitRef == InternInit /\ MirIdle /\ LayoutInit /\ TcxIdle /\ CgIdle /\ UnifyIdle /\ ShardIdle /\ SymIdle /\ TermIdle

NextRef ==
    \/ \E mut \in BOOLEAN, to \in RefTargets :
           TcxLayoutRef(mut, to) /\ UNCHANGED <<internVars, mirVars, tcxVars, cgVars, unifyVars, shardVars, symVars, termVars>>
    \/ \E elem \in RefTargets, repr \in Reprs :
           MirLayoutPtr(elem, repr) /\ UNCHANGED <<internVars, mirVars, tcxVars, cgVars, unifyVars, shardVars, symVars, termVars>>

SpecRef == InitRef /\ [][NextRef]_vars

\* C21: the layout of every reference type is a pointer-sized Scalar whose
\* valid_range is 1 ..= max, so that its largest_niche has exactly one
\* available value (zero).
C21_ReferenceNonNull ==
    \A i \in 1 .. Len(stack) :
        LET l    == stack[i].lay
            bits == Primitive_bits(<<"Pointer">>, triple)
        IN  stack[i].made = "ref" =>
                /\ l.abi.kind = "Scalar"
                /\ l.size = Size_from_bits(bits)
                /\ l.abi.scalars[1].valid_range = [start |-> Wide(0, 1), end |-> Wide(bits, 0)]
                /\ l.largest_niche # <<>>
                /\ Niche_available(l.largest_niche[1], triple) = Wide(0, 1)

(***************************************************************************)
(*                            MIR BUILDER                                  *)
(***************************************************************************)
\* BTreeMap::insert
MapInsert(m, k, v) == [x \in (DOMAIN m) \cup {k} |-> IF x = k THEN v ELSE m[x]]

\* BTreeMap::len
MapLen(m) == Cardinality(DOMAIN m)

\* An id one past the next free one.
SkipLocalId(ls) == MapLen(ls) + 1

\* LocalId(self.body.locals.len())
NextLocalId(ls) == MapLen(ls)

\* locals.insert(id, Local { id, kind, ty }) with a fresh id
InsertLocal(ls, kind) ==
    LET id == NextLocalId(ls)
    IN  MapInsert(ls, id, [id |-> id, kind |-> kind])

RECURSIVE InsertArgs(_, _)
\* for param in params { locals.insert(LocalId(locals.len()), Local { kind: Arg, .. }) }
InsertArgs(ls, n) ==
    IF n = 0 THEN ls ELSE InsertArgs(InsertLocal(ls, "Arg"), n - 1)

RECURSIVE IdsInOrder(_)
\* The ids of the locals of a freshly declared body, in creation order.
IdsInOrder(n) == IF n = 0 THEN <<>> ELSE Append(IdsInOrder(n - 1), n - 1)

\* Package::declare_body: local 0 is the return slot, then one Arg per parameter.
DeclareBody(n) ==
    /\ nparams' = n
    /\ locals' = InsertArgs(MapInsert(<<>>, 0, [id |-> 0, kind |-> "Ret"]), n)
    /\ blocks' = <<>>
    /\ current_block' = <<>>
    /\ localLog' = IdsInOrder(n + 1)
    /\ UNCHANGED todo

\* Builder::create_var
CreateVar ==
    /\ locals # <<>>
    /\ MapLen(locals) < MaxLocals
    /\ locals' = InsertLocal(locals, "Var")
    /\ localLog' = Append(localLog, NextLocalId(locals))
    /\ UNCHANGED <<nparams, blocks, current_block, todo>>

\* Builder::create_tmp
CreateTmp ==
    /\ locals # <<>>
    /\ MapLen(locals) < MaxLocals
    /\ locals' = InsertLocal(locals, "Tmp")
    /\ localLog' = Append(localLog, NextLocalId(locals))
    /\ UNCHANGED <<nparams, blocks, current_block, todo>>

\* BlockId(self.body.blocks.len()) and the insert of create_block
NewBlock(bs) ==
    MapInsert(bs, MapLen(bs), [id |-> MapLen(bs), stmts |-> 0, term |-> <<"Unset">>])

\* Builder::create_block
CreateBlock ==
    /\ locals # <<>>
    /\ MapLen(blocks) < MaxBlocks
    /\ blocks' = NewBlock(blocks)
    /\ UNCHANGED <<nparams, locals, current_block, localLog, todo>>

\* Builder::use_block
UseBlock(b) ==
    /\ b \in DOMAIN blocks
    /\ current_block' = <<b>>
    /\ UNCHANGED <<nparams, locals, blocks, localLog, todo>>

\* Builder::placed on a constant operand: a fresh Tmp receives the constant
\* through an assignment pushed on the current block.
Placed ==
    /\ current_block # <<>>
    /\ MapLen(locals) < MaxLocals
    /\ locals' = InsertLocal(locals, "Tmp")
    /\ localLog' = Append(localLog, NextLocalId(locals))
    /\ blocks' = [blocks EXCEPT ![current_block[1]].stmts = @ + 1]
    /\ UNCHANGED <<nparams, current_block, todo>>

\* The locals of the body that are not the return slot or a parameter.
Tmps == MapLen(locals) - 1 - nparams

\* A terminator call that leaves the block as it is.
KeepTerm(bs, cur, term) == bs

\* A terminator call that sets the terminator whatever it was.
TermOverwrite(bs, cur, term) == [bs EXCEPT ![cur].term = term]

\* if let Term::Unset = self.block().term { self.block().term = term }
TermSet(bs, cur, term) ==
    [bs EXCEPT ![cur].term = IF @ = <<"Unset">> THEN term ELSE @]

\* A terminator call on the current block.
SetTerm(term) ==
    /\ current_block # <<>>
    /\ blocks' = TermSet(blocks, current_block[1], term)
    /\ UNCHANGED <<nparams, locals, current_block, localLog, todo>>

\* Builder::abort
Abort == SetTerm(<<"Abort">>)

\* Builder::return_
Return == SetTerm(<<"Return">>)

\* Builder::jump
Jump(target) == target \in DOMAIN blocks /\ SetTerm(<<"Jump", target>>)

\* Builder::switch with one value and two targets
Switch(t1, t2) == {t1, t2} \subseteq DOMAIN blocks /\ SetTerm(<<"Switch", t1, t2>>)

\* Builder::call
CallTerm(target) == target \in DOMAIN blocks /\ SetTerm(<<"Call", target>>)

InitMir == InternInit /\ MirIdle /\ LayIdle /\ TcxIdle /\ CgIdle /\ UnifyIdle /\ ShardIdle /\ SymIdle /\ TermIdle

NextMir ==
    \/ \E n \in 0 .. MaxParams : DeclareBody(n) /\ UNCHANGED <<internVars, layVars, tcxVars, cgVars, unifyVars, shardVars, symVars, termVars>>
    \/ CreateVar /\ UNCHANGED <<internVars, layVars, tcxVars, cgVars, unifyVars, shardVars, symVars, termVars>>
    \/ CreateTmp /\ UNCHANGED <<internVars, layVars, tcxVars, cgVars, unifyVars, shardVars, symVars, termVars>>
    \/ CreateBlock /\ UNCHANGED <<internVars, layVars, tcxVars, cgVars, unifyVars, shardVars, symVars, termVars>>
    \/ \E b \in 0 .. (MaxBlocks - 1) : UseBlock(b) /\ UNCHANGED <<internVars, layVars, tcxVars, cgVars, unifyVars, shardVars, symVars, termVars>>
    \/ Placed /\ UNCHANGED <<internVars, layVars, tcxVars, cgVars, unifyVars, shardVars, symVars, termVars>>
    \/ Abort /\ UNCHANGED <<internVars, layVars, tcxVars, cgVars, unifyVars, shardVars, symVars, termVars>>
    \/ Return /\ UNCHANGED <<internVars, layVars, tcxVars, cgVars, unifyVars, shardVars, symVars, termVars>>
    \/ \E b \in 0 .. (MaxBlocks - 1) : Jump(b) /\ UNCHANGED <<internVars, layVars, tcxVars, cgVars, unifyVars, shardVars, symVars, termVars>>

SpecMir == InitMir /\ [][NextMir]_vars

\* C10: in a declared body, after any create_var / create_tmp calls, local 0
\* is the Ret local, the Arg locals are exactly the ids 1..n, every later local
\* is a Var or a Tmp, and the k-th local created got id k - 1: ids are dense
\* and no id was handed out twice.
C10_LocalsDense ==
    locals # <<>> =>
        /\ 0 \in DOMAIN locals /\ locals[0].kind = "Ret"
        /\ {i \in DOMAIN locals : locals[i].kind = "Arg"} = 1 .. nparams
        /\ \A i \in DOMAIN locals : locals[i].id = i
        /\ \A i \in DOMAIN locals : i > nparams => locals[i].kind \in {"Var", "Tmp"}
        /\ DOMAIN locals = 0 .. (Len(localLog) - 1)
        /\ \A k \in 1 .. Len(localLog) : localLog[k] = k - 1

\* A body with parameters has received a Var and a Tmp.
C10_Witness ==
    /\ nparams = MaxParams
    /\ \E i, j \in DOMAIN locals : locals[i].kind = "Var" /\ locals[j].kind = "Tmp" /\ i < j

\* The block ids handed to jump, switch and call.
TermTargets == {0, 1}

\* History: whether the terminator call being made finds a terminator set.
NoteDropped == dropped' = (blocks[current_block[1]].term # <<"Unset">>)

InitTerm == InternInit /\ MirIdle /\ LayIdle /\ TcxIdle /\ CgIdle /\ UnifyIdle /\ ShardIdle /\ SymIdle /\ TermIdle

\* One body under construction: blocks are created and made current,
\* constants are placed in the current block, and the five terminator calls
\* are made in any order, on any current block, any number of times.
NextTerm ==
    \/ locals = <<>> /\ DeclareBody(0) /\ UNCHANGED <<internVars, layVars, tcxVars, cgVars, unifyVars, shardVars, symVars, termVars>>
    \/ CreateBlock /\ UNCHANGED <<internVars, layVars, tcxVars, cgVars, unifyVars, shardVars, symVars, termVars>>
    \/ \E b \in 0 .. (MaxBlocks - 1) : UseBlock(b) /\ UNCHANGED <<internVars, layVars, tcxVars, cgVars, unifyVars, shardVars, symVars, termVars>>
    \/ Tmps < MaxPlaced /\ Placed /\ UNCHANGED <<internVars, layVars, tcxVars, cgVars, unifyVars, shardVars, symVars, termVars>>
    \/ Abort /\ NoteDropped /\ UNCHANGED <<internVars, layVars, tcxVars, cgVars, unifyVars, shardVars, symVars>>
    \/ Return /\ NoteDropped /\ UNCHANGED <<internVars, layVars, tcxVars, cgVars, unifyVars, shardVars, symVars>>
    \/ \E b \in TermTargets : Jump(b) /\ NoteDropped /\ UNCHANGED <<internVars, layVars, tcxVars, cgVars, unifyVars, shardVars, symVars>>
    \/ \E t1, t2 \in TermTargets : Switch(t1, t2) /\ NoteDropped /\ UNCHANGED <<internVars, layVars, tcxVars, cgVars, unifyVars, shardVars, symVars>>
    \/ \E b \in TermTargets : CallTerm(b) /\ NoteDropped /\ UNCHANGED <<internVars, layVars, tcxVars, cgVars, unifyVars, shardVars, symVars>>

SpecTerm == InitTerm /\ [][NextTerm]_vars

\* Any of the five terminator calls of the builder.
TerminatorCall ==
    \/ Abort
    \/ Return
    \/ \E b \in TermTargets : Jump(b) \/ CallTerm(b)
    \/ \E t1, t2 \in TermTargets : Switch(t1, t2)

\* C27: terminators are write-once.  Once a block of the body has a
\* terminator other than Unset, no builder operation changes it; and a
\* terminator call (abort, return_, jump, switch, call) on a block that has
\* one leaves the whole body and the current block unchanged.
C27_TerminatorWriteOnce ==
    [][/\ \A b \in DOMAIN blocks :
             blocks[b].term # <<"Unset">> =>
                 b \in DOMAIN blocks' /\ blocks'[b].term = blocks[b].term
       /\ (TerminatorCall /\ blocks[current_block[1]].term # <<"Unset">>) =>
             UNCHANGED <<nparams, locals, blocks, current_block, localLog>>]_vars

\* Both blocks of a body are terminated, by different calls, the current
\* block is one of them, and the last terminator call was made on a block
\* that had a terminator already.
C27_Witness ==
    /\ dropped
    /\ Tmps = MaxPlaced
    /\ MapLen(blocks) = MaxBlocks
    /\ current_block # <<>>
    /\ blocks[current_block[1]].term[1] \in {"Switch", "Call"}
    /\ \E b \in DOMAIN blocks : blocks[b].term[1] \in {"Abort", "Return", "Jump"}

(***************************************************************************)
(*                  LOWERING: BodyConverter (lower/src/lib.rs)             *)
(***************************************************************************)
\* The converter walks the body expression depth first.  `todo` holds what
\* is left of the walk: an "expr" entry is an expression still to convert
\* (its shape is chosen when its turn comes), every other entry is the rest
\* of a construct whose sub-expression is being converted.  The builder
\* calls are those of the MIR builder above.
Item(k, n, a, b) == [k |-> k, n |-> n, a |-> a, b |-> b]

Expr == Item("expr", 0, 0, 0)

TopItem == IF todo = <<>> THEN Item("none", 0, 0, 0) ELSE todo[Len(todo)]

\* todo with its last entry replaced by the entries of `items`.
Continue_with(items) == SubSeq(todo, 1, Len(todo) - 1) \o items

RECURSIVE Reserved(_)
\* The blocks the constructs in progress will still create.
Reserved(st) ==
    IF st = <<>> THEN 0
    ELSE (CASE st[1].k = "if_cond" -> 3
            [] st[1].k = "case_pred" -> 1 + st[1].n
            [] st[1].k \in {"arms", "arm"} -> st[1].n
            [] OTHER -> 0) + Reserved(Tail(st))

\* The scrutinees in progress: each may still need a Tmp, as does the
\* result of its case.
PendingPreds == Cardinality({i \in 1 .. Len(todo) : todo[i].k = "case_pred"})

\* Whether a construct that creates `need` blocks and `tmps` locals may
\* start here.
Room(need, tmps) ==
    /\ MapLen(blocks) + Reserved(todo) + need <= MaxLowerBlocks
    /\ Tmps + 2 * PendingPreds + tmps <= MaxLowerTmps

\* Builder::use_ and the other statement pushes: one more statement on the block.
PushStmt(bs, cur) == [bs EXCEPT ![cur].stmts = @ + 1]

\* BodyConverter::convert, up to the conversion of body.value: the header
\* (the return local, one local per parameter), the entry block, set_block.
ConvertBody(n) ==
    /\ todo = <<>>
    /\ nparams' = n
    /\ locals' = InsertArgs(MapInsert(<<>>, 0, [id |-> 0, kind |-> "Ret"]), n)
    /\ localLog' = IdsInOrder(n + 1)
    /\ blocks' = NewBlock(<<>>)
    /\ current_block' = <<0>>
    /\ todo' = <<Item("ret", 0, 0, 0), Expr>>

\* convert_expr on Hole, Ident, Int, Float, Char, an empty Tuple or Record:
\* an operand, no builder call.
ConvertLeaf ==
    /\ TopItem = Expr
    /\ todo' = Continue_with(<<>>)
    /\ UNCHANGED <<nparams, locals, blocks, current_block, localLog>>

\* convert_expr on a Tuple or Record of two components: a Tmp for the
\* result, then the first component.
ConvertTuple ==
    /\ TopItem = Expr
    /\ Room(0, 1)
    /\ locals' = InsertLocal(locals, "Tmp")
    /\ localLog' = Append(localLog, NextLocalId(locals))
    /\ todo' = Continue_with(<<Item("tuple", 1, 0, 0), Expr>>)
    /\ UNCHANGED <<nparams, blocks, current_block>>

\* self.builder.use_op(res.field(i), op), then the next component if any.
TupleComponent ==
    /\ TopItem.k = "tuple"
    /\ blocks' = PushStmt(blocks, current_block[1])
    /\ todo' = IF TopItem.n > 0
               THEN Continue_with(<<Item("tuple", TopItem.n - 1, 0, 0), Expr>>)
               ELSE Continue_with(<<>>)
    /\ UNCHANGED <<nparams, locals, current_block, localLog>>

\* convert_expr on If: a Tmp for the result, then the condition.
ConvertIf ==
    /\ TopItem = Expr
    /\ Room(3, 1)
    /\ locals' = InsertLocal(locals, "Tmp")
    /\ localLog' = Append(localLog, NextLocalId(locals))
    /\ todo' = Continue_with(<<Item("if_cond", 0, 0, 0), Expr>>)
    /\ UNCHANGED <<nparams, blocks, current_block>>

\* lower_term on Term::Switch(op, vals, blocks) with vals = [0]: the entry
\* for the value 0 is the first block, `otherwise` is blocks.last().
SwitchTarget(term, val) == IF val = 0 THEN term[2] ELSE term[Len(term)]

\* An If whose switch lists then_block first.
IfCondThenFirst ==
    LET then_block == MapLen(blocks)
        else_block == then_block + 1
        exit_block == then_block + 2
        created    == NewBlock(NewBlock(NewBlock(blocks)))
    IN  /\ TopItem.k = "if_cond"
        /\ blocks' = TermSet(created, current_block[1],
                             <<"Switch", then_block, else_block>>)
        /\ current_block' = <<then_block>>
        /\ todo' = Continue_with(<<Item("if_then", 0, else_block, exit_block), Expr>>)
        /\ UNCHANGED <<nparams, locals, localLog>>

\* The condition is converted: then_block, else_block and exit_block are
\* created, the current block switches on the condition, and the then
\* branch is converted in then_block.
IfCond ==
    LET then_block == MapLen(blocks)
        else_block == then_block + 1
        exit_block == then_block + 2
        created    == NewBlock(NewBlock(NewBlock(blocks)))
    IN  /\ TopItem.k = "if_cond"
        /\ blocks' = TermSet(created, current_block[1],
                             <<"Switch", else_block, then_block>>)
        /\ current_block' = <<then_block>>
        /\ todo' = Continue_with(<<Item("if_then", 0, else_block, exit_block), Expr>>)
        /\ UNCHANGED <<nparams, locals, localLog>>

\* use_op(res, then); jump(exit_block); set_block(else_block); the else branch.
IfThen ==
    /\ TopItem.k = "if_then"
    /\ blocks' = TermSet(PushStmt(blocks, current_block[1]), current_block[1],
                         <<"Jump", TopItem.b>>)
    /\ current_block' = <<TopItem.a>>
    /\ todo' = Continue_with(<<Item("if_else", 0, 0, TopItem.b), Expr>>)
    /\ UNCHANGED <<nparams, locals, localLog>>

\* use_op(res, else_); jump(exit_block); set_block(exit_block)
IfElse ==
    /\ TopItem.k = "if_else"
    /\ blocks' = TermSet(PushStmt(blocks, current_block[1]), current_block[1],
                         <<"Jump", TopItem.b>>)
    /\ current_block' = <<TopItem.b>>
    /\ todo' = Continue_with(<<>>)
    /\ UNCHANGED <<nparams, locals, localLog>>

\* convert_expr on Case with one scrutinee and n arms: the scrutinee first.
ConvertCase(n) ==
    /\ TopItem = Expr
    /\ Room(1 + n, 2)
    /\ todo' = Continue_with(<<Item("case_pred", n, 0, 0), Expr>>)
    /\ UNCHANGED <<nparams, locals, blocks, current_block, localLog>>

\* The scrutinee is converted and placed (a Tmp and an assignment unless it
\* is a place already); convert_arms creates the result Tmp and exit_block.
\* The entry keeps the block the scrutinee was placed in (a) and
\* exit_block (b).
CasePred(isPlace) ==
    LET ls == IF isPlace THEN locals ELSE InsertLocal(locals, "Tmp")
        lg == IF isPlace THEN localLog ELSE Append(localLog, NextLocalId(locals))
        bs == IF isPlace THEN blocks ELSE PushStmt(blocks, current_block[1])
    IN  /\ TopItem.k = "case_pred"
        /\ locals' = InsertLocal(ls, "Tmp")
        /\ localLog' = Append(lg, NextLocalId(ls))
        /\ blocks' = NewBlock(bs)
        /\ todo' = Continue_with(<<Item("arms", TopItem.n, current_block[1],
                                         MapLen(blocks))>>)
        /\ UNCHANGED <<nparams, current_block>>

\* One arm of convert_arms: `next` is created, the pattern is converted (it
\* creates no block and returns `next`), the current block jumps to `next`,
\* and the arm's value is converted in `next`.
ArmStart ==
    LET next == MapLen(blocks)
    IN  /\ TopItem.k = "arms"
        /\ TopItem.n > 0
        /\ blocks' = TermSet(NewBlock(blocks), current_block[1], <<"Jump", next>>)
        /\ current_block' = <<next>>
        /\ todo' = Continue_with(<<Item("arm", TopItem.n - 1, TopItem.a, TopItem.b),
                                  Expr>>)
        /\ UNCHANGED <<nparams, locals, localLog>>

\* convert_guarded stores the arm's value; self.builder.jump(exit_block)
ArmEnd ==
    /\ TopItem.k = "arm"
    /\ blocks' = TermSet(PushStmt(blocks, current_block[1]), current_block[1],
                         <<"Jump", TopItem.b>>)
    /\ todo' = Continue_with(<<Item("arms", TopItem.n, TopItem.a, TopItem.b)>>)
    /\ UNCHANGED <<nparams, locals, current_block, localLog>>

\* After the last arm: jump(exit_block); set_block(exit_block)
ArmsDone ==
    /\ TopItem.k = "arms"
    /\ TopItem.n = 0
    /\ blocks' = TermSet(blocks, current_block[1], <<"Jump", TopItem.b>>)
    /\ current_block' = <<TopItem.b>>
    /\ todo' = Continue_with(<<>>)
    /\ UNCHANGED <<nparams, locals, localLog>>

\* The end of BodyConverter::convert: use_op(ret, res); return_()
ConvertReturn ==
    /\ TopItem.k = "ret"
    /\ blocks' = TermSet(PushStmt(blocks, current_block[1]), current_block[1], <<"Return">>)
    /\ todo' = <<Item("done", 0, 0, 0)>>
    /\ UNCHANGED <<nparams, locals, current_block, localLog>>

InitLower == InternInit /\ MirIdle /\ LayIdle /\ TcxIdle /\ CgIdle /\ UnifyIdle /\ ShardIdle /\ SymIdle /\ TermIdle

NextLower ==
    \/ \E n \in 0 .. MaxParams : ConvertBody(n) /\ UNCHANGED <<internVars, layVars, tcxVars, cgVars, unifyVars, shardVars, symVars, termVars>>
    \/ ConvertLeaf /\ UNCHANGED <<internVars, layVars, tcxVars, cgVars, unifyVars, shardVars, symVars, termVars>>
    \/ ConvertTuple /\ UNCHANGED <<internVars, layVars, tcxVars, cgVars, unifyVars, shardVars, symVars, termVars>>
    \/ TupleComponent /\ UNCHANGED <<internVars, layVars, tcxVars, cgVars, unifyVars, shardVars, symVars, termVars>>
    \/ ConvertIf /\ UNCHANGED <<internVars, layVars, tcxVars, cgVars, unifyVars, shardVars, symVars, termVars>>
    \/ IfCond /\ UNCHANGED <<internVars, layVars, tcxVars, cgVars, unifyVars, shardVars, symVars, termVars>>
    \/ IfThen /\ UNCHANGED <<internVars, layVars, tcxVars, cgVars, unifyVars, shardVars, symVars, termVars>>
    \/ IfElse /\ UNCHANGED <<internVars, layVars, tcxVars, cgVars, unifyVars, shardVars, symVars, termVars>>
    \/ \E n \in 0 .. MaxArms : ConvertCase(n) /\ UNCHANGED <<internVars, layVars, tcxVars, cgVars, unifyVars, shardVars, symVars, termVars>>
    \/ \E isPlace \in BOOLEAN : CasePred(isPlace) /\ UNCHANGED <<internVars, layVars, tcxVars, cgVars, unifyVars, shardVars, symVars, termVars>>
    \/ ArmStart /\ UNCHANGED <<internVars, layVars, tcxVars, cgVars, unifyVars, shardVars, symVars, termVars>>
    \/ ArmEnd /\ UNCHANGED <<internVars, layVars, tcxVars, cgVars, unifyVars, shardVars, symVars, termVars>>
    \/ ArmsDone /\ UNCHANGED <<internVars, layVars, tcxVars, cgVars, unifyVars, shardVars, symVars, termVars>>
    \/ ConvertReturn /\ UNCHANGED <<internVars, layVars, tcxVars, cgVars, unifyVars, shardVars, symVars, termVars>>

SpecLower == InitLower /\ [][NextLower]_vars

\* convert has returned.
Converted == TopItem.k = "done"

\* C11: when BodyConverter::convert has returned, every block created in
\* the body has a terminator other than Unset, whatever the shape of the
\* body expression (nested if and case expressions, any number of arms).
C11_AllBlocksTerminated ==
    Converted => \A b \in DOMAIN blocks : blocks[b].term # <<"Unset">>

\* A converted body with an if nested in another construct: a block that
\* switches, and a block that jumps to a block that itself jumps on (an
\* inner exit block leading to an outer one), in a body that used every
\* block it may have.
C11_Witness ==
    /\ Converted
    /\ MapLen(blocks) = MaxLowerBlocks
    /\ \E b \in DOMAIN blocks : b # 0 /\ blocks[b].term[1] = "Switch"
    /\ \E b \in DOMAIN blocks :
          /\ blocks[b].term[1] = "Jump"
          /\ blocks[blocks[b].term[2]].term[1] = "Jump"

\* The blocks a terminator passes control to.
Successors(term) ==
    CASE term[1] = "Jump" -> {term[2]}
      [] term[1] = "Switch" -> {term[2], term[3]}
      [] OTHER -> {}

RECURSIVE ReachableFrom(_)
\* The blocks control can get to from the blocks of `seen`.
ReachableFrom(seen) ==
    LET more == seen \cup UNION {Successors(blocks[b].term) : b \in seen}
    IN  IF more = seen THEN seen ELSE ReachableFrom(more)

ArmEntered ==
    /\ Len(todo) >= 2
    /\ TopItem = Expr
    /\ todo[Len(todo) - 1].k = "arm"

\* The loop of convert_arms over the arms of a case with at least one arm
\* has ended.
ArmsLowered ==
    /\ TopItem.k = "arms"
    /\ TopItem.n = 0
    /\ MapLen(blocks) > TopItem.b + 1

\* C24: the arms of a case are lowered to a chain of blocks: the block of
\* every arm is reachable from the block of the scrutinee through the
\* terminators, and once the last arm is lowered the chain ends in a block
\* terminated by Abort.
C24_ArmChainEndsInAbort ==
    /\ ArmEntered =>
          current_block[1] \in ReachableFrom({todo[Len(todo) - 1].a})
    /\ ArmsLowered =>
          \E b \in ReachableFrom({TopItem.a}) : blocks[b].term = <<"Abort">>

(***************************************************************************)
(*      CODE GENERATION: declare, define and calls (codegen/src)           *)
(***************************************************************************)
\* The ids of package.items, in the order of the BTreeMap.
CgIds == {0, 1}

\* The types of returns and parameters: a tuple without fields (no bytes), a
\* 32-bit integer (one scalar), a string (a pair of scalars) and an array of
\* two integers (an aggregate).
CgTys == {<<"Tuple">>, <<"UInt", 32>>, <<"Str">>, <<"Array", <<"UInt", 32>>, 2>>}

\* target_lexicon::Triple::host(): a 64-bit host.
HostTriple == "U64"

\* The layouts Tcx::layout computes for these types.
CgLayouts ==
    [ty \in CgTys |->
        CASE ty[1] = "Tuple" -> Tcx_struct_layout(<<>>, HostTriple)
          [] ty[1] = "Array" -> Tcx_array(Tcx_leaf(ty[2], HostTriple), ty[3])
          [] OTHER -> Tcx_leaf(ty, HostTriple)]

\* tcx.layout(ty)
CgLayout(ty) == CgLayouts[ty]

\* module.target_config().pointer_type()
pointer_type == PtrSizedInt(HostTriple, FALSE)[2]

\* The backend type of a scalar.
ClifType(scalar) ==
    CASE scalar.value[1] = "Int" -> scalar.value[2]
      [] scalar.value[1] = "Pointer" -> pointer_type
      [] OTHER -> scalar.value[1]

\* crate::pass::pass_mode
pass_mode(layout) ==
    IF layout.size = 0 THEN <<"NoPass">>
    ELSE IF layout.abi.kind = "Scalar" THEN <<"ByVal", ClifType(layout.abi.scalars[1])>>
    ELSE IF layout.abi.kind = "ScalarPair"
         THEN <<"ByPair", ClifType(layout.abi.scalars[1]), ClifType(layout.abi.scalars[2])>>
    ELSE <<"ByRef", layout.size>>

\* declare: the match on the return's pass mode, for sig.returns
SigReturns(mode) ==
    CASE mode[1] = "NoPass" -> <<>>
      [] mode[1] = "ByVal" -> <<mode[2]>>
      [] mode[1] = "ByPair" -> <<mode[2], mode[3]>>
      [] mode[1] = "ByRef" -> <<>>

\* declare: what the match on a parameter's pass mode pushes on sig.params
ParamsFor(mode) ==
    CASE mode[1] = "NoPass" -> <<>>
      [] mode[1] = "ByVal" -> <<mode[2]>>
      [] mode[1] = "ByPair" -> <<mode[2], mode[3]>>
      [] mode[1] = "ByRef" -> <<pointer_type>>

RECURSIVE PushParams(_, _)
\* declare: for arg in params { match pass_mode(tcx.layout(arg.ty)) { .. } }
PushParams(params, tys) ==
    IF tys = <<>> THEN params
    ELSE PushParams(params \o ParamsFor(pass_mode(CgLayout(Head(tys)))), Tail(tys))

\* The return's ByRef arm: the pointer it pushes on sig.params.
RetPointer(ret) == IF pass_mode(CgLayout(ret))[1] = "ByRef" THEN <<pointer_type>> ELSE <<>>

\* A declare that pushes the return's pointer after the parameters.
RetPointerLast(ret, tys) == PushParams(<<>>, tys) \o RetPointer(ret)

\* declare: sig.params, the return's match first and the loop after it
SigParams(ret, tys) == PushParams(RetPointer(ret), tys)

\* declare: the Signature of a function item
Signature(ret, tys) ==
    [params |-> SigParams(ret, tys), returns |-> SigReturns(pass_mode(CgLayout(ret)))]

\* crate::pass::value_for_param: the block parameters appended to
\* start_block for one parameter, by its pass mode
value_for_param(layout) ==
    LET mode == pass_mode(layout)
    IN  CASE mode[1] = "NoPass" -> <<>>
          [] mode[1] = "ByVal" -> <<mode[2]>>
          [] mode[1] = "ByPair" -> <<mode[2], mode[3]>>
          [] mode[1] = "ByRef" -> <<pointer_type>>

\* crate::pass::value_for_arg: the values passed for one argument
value_for_arg(layout) ==
    LET mode == pass_mode(layout)
    IN  CASE mode[1] = "NoPass" -> <<>>
          [] mode[1] = "ByVal" -> <<mode[2]>>
          [] mode[1] = "ByPair" -> <<mode[2], mode[3]>>
          [] mode[1] = "ByRef" -> <<pointer_type>>

RECURSIVE Flatten(_, _)
\* .map(f).flatten() over the layouts of parameters or arguments
Flatten(f(_), tys) ==
    IF tys = <<>> THEN <<>> ELSE f(CgLayout(Head(tys))) \o Flatten(f, Tail(tys))

RECURSIVE CgParams(_)
\* The number of parameters of the function items of a package.
CgParams(items) ==
    IF items = <<>> THEN 0 ELSE Len(Head(items).params) + CgParams(Tail(items))

\* The items a package may hold: an extern function, an extern data item
\* (which has no parameters) or a body.
CgItems ==
    {[kind |-> kind, ret |-> ret, params |-> tys] :
        kind \in {"Extern", "Body"}, ret \in CgTys,
        tys \in UNION {[1 .. n -> CgTys] : n \in 0 .. MaxCgParams}}
    \cup {[kind |-> "Data", ret |-> ty, params |-> <<>>] : ty \in CgTys}

\* The packages translated: package.items in the order of their ids, with
\* at most MaxCgParams parameters in all.
CgPackages ==
    {pk \in UNION {[1 .. n -> CgItems] : n \in 1 .. Cardinality(CgIds)} :
        CgParams(pk) <= MaxCgParams}

\* The items declare has been called on.
Declared == DOMAIN func_ids \cup DOMAIN data_ids

\* A translate that defines an item as soon as that item is declared.
DeclaredNext == defined + 1 \in Declared

\* translate: the loop over declare has ended.
DeclaredAll == Declared = DOMAIN pkg_items

\* declare(item), for the next item of `for item in package.items.values()`:
\* an extern function, an extern data item or a body.
Declare ==
    /\ cg_pc # "panicked"
    /\ Declared # DOMAIN pkg_items
    /\ LET id   == Cardinality(Declared) + 1
           item == pkg_items[id]
       IN  IF item.kind = "Data"
           THEN /\ data_ids' = MapInsert(data_ids, id, CgLayout(item.ret))
                /\ UNCHANGED func_ids
           ELSE /\ func_ids' = MapInsert(func_ids, id, [sig |-> Signature(item.ret, item.params),
                                                        ret |-> CgLayout(item.ret)])
                /\ UNCHANGED data_ids
    /\ UNCHANGED <<pkg_items, cg_pc, defined, start_params, call_insts>>

\* define(item), for the next item of the second loop, up to the jump to the
\* first block: nothing for an extern; for a body the reception of the
\* return pointer and of the parameters.  func_ids[&item.id] panics on an
\* item that is not declared.
Define ==
    /\ cg_pc \in {"declare", "define"}
    /\ DeclaredAll
    /\ defined < Len(pkg_items)
    /\ LET item == pkg_items[defined + 1]
       IN  start_params' =
               Append(start_params,
                      IF item.kind = "Body"
                      THEN [entered |-> TRUE,
                            params |-> RetPointer(item.ret) \o Flatten(value_for_param, item.params)]
                      ELSE [entered |-> FALSE, params |-> <<>>])
    /\ cg_pc' = "define"
    /\ defined' = defined + 1
    /\ UNCHANGED <<pkg_items, func_ids, data_ids, call_insts>>

\* trans_rvalue on RValue::Call(FuncAddr(id), args) in the body being
\* defined; id names a function of the package.  The place has the
\* callee's return type and the operands have the types of its parameters.
\* self.func_ids[id] panics when the callee is not declared.  Without a
\* return pointer the caller reads inst_results(inst)[0], which panics when
\* the call has no result.
TransCall(callee) ==
    /\ cg_pc = "define"
    /\ defined >= 1
    /\ pkg_items[defined].kind = "Body"
    /\ Len(call_insts) < MaxCgCalls
    /\ callee \in DOMAIN pkg_items
    /\ pkg_items[callee].kind # "Data"
    /\ LET item    == pkg_items[callee]
           ret_ptr == IF pass_mode(CgLayout(item.ret))[1] = "ByRef"
                      THEN <<pointer_type>> ELSE <<>>
           args    == ret_ptr \o Flatten(value_for_arg, item.params)
       IN  IF callee \notin DOMAIN func_ids
           THEN /\ call_insts' = Append(call_insts, [caller |-> defined, callee |-> callee,
                                                     emitted |-> FALSE, args |-> <<>>,
                                                     results |-> 0, read |-> 0])
                /\ cg_pc' = "panicked"
           ELSE LET results == Len(func_ids[callee].sig.returns)
                    read    == IF ret_ptr = <<>> THEN 1 ELSE 0
                IN  /\ call_insts' = Append(call_insts, [caller |-> defined, callee |-> callee,
                                                         emitted |-> TRUE, args |-> args,
                                                         results |-> results, read |-> read])
                    /\ cg_pc' = IF read > results THEN "panicked" ELSE "define"
    /\ UNCHANGED <<pkg_items, func_ids, data_ids, defined, start_params>>

\* trans_rvalue on a call through a function value: unimplemented!()
TransCallIndirect ==
    /\ cg_pc = "define"
    /\ defined >= 1
    /\ pkg_items[defined].kind = "Body"
    /\ cg_pc' = "panicked"
    /\ UNCHANGED <<pkg_items, func_ids, data_ids, defined, start_params, call_insts>>

\* translate(tcx, package) is entered with a package.
InitCodegen ==
    /\ InternInit /\ MirIdle /\ LayIdle /\ TcxIdle /\ UnifyIdle /\ ShardIdle /\ SymIdle /\ TermIdle
    /\ pkg_items \in CgPackages
    /\ func_ids = <<>>
    /\ data_ids = <<>>
    /\ cg_pc = "declare"
    /\ defined = 0
    /\ start_params = <<>>
    /\ call_insts = <<>>

notCg == <<internVars, mirVars, layVars, tcxVars, unifyVars, shardVars, symVars, termVars>>

NextCodegen ==
    \/ Declare /\ UNCHANGED notCg
    \/ Define /\ UNCHANGED notCg
    \/ \E callee \in CgIds : TransCall(callee + 1) /\ UNCHANGED notCg
    \/ TransCallIndirect /\ UNCHANGED notCg

SpecCodegen == InitCodegen /\ [][NextCodegen]_vars

\* The kind of pass mode of a type.
ModeOf(ty) == pass_mode(CgLayout(ty))[1]

\* How many values a pass mode takes in sig.params.
ParamCount(mode) ==
    CASE mode = "NoPass" -> 0 [] mode = "ByVal" -> 1 [] mode = "ByPair" -> 2 [] mode = "ByRef" -> 1

RECURSIVE ParamOffset(_, _)
\* Where the values of parameter j start in sig.params.
ParamOffset(item, j) ==
    IF j = 1 THEN (IF ModeOf(item.ret) = "ByRef" THEN 1 ELSE 0)
    ELSE ParamOffset(item, j - 1) + ParamCount(ModeOf(item.params[j - 1]))

\* C12: the signature declare builds for a function item has 0 / 1 / 2 return
\* values for a NoPass / ByVal / ByPair return and none for a ByRef return,
\* which takes a pointer parameter at position 0 instead; after it every
\* parameter, in order, takes 0 / 1 / 2 / 1 parameters for NoPass / ByVal /
\* ByPair / ByRef; the block parameters define receives and the arguments of
\* every call are the signature's parameters, in the same order.
C12_SignatureMatchesPassModes ==
    /\ \A i \in DOMAIN func_ids :
          LET item == pkg_items[i]
              sig  == func_ids[i].sig
              rm   == ModeOf(item.ret)
          IN  /\ Len(sig.returns) = (CASE rm = "NoPass" -> 0 [] rm = "ByVal" -> 1
                                       [] rm = "ByPair" -> 2 [] rm = "ByRef" -> 0)
              /\ rm = "ByRef" => (sig.params # <<>> /\ sig.params[1] = pointer_type)
              /\ Len(sig.params) = ParamOffset(item, Len(item.params) + 1)
              /\ \A j \in DOMAIN item.params :
                    LET from == ParamOffset(item, j)
                        to   == ParamOffset(item, j + 1)
                        m    == pass_mode(CgLayout(item.params[j]))
                    IN  /\ to - from = ParamCount(m[1])
                        /\ m[1] = "ByVal" => sig.params[from + 1] = m[2]
                        /\ m[1] = "ByPair" =>
                              (sig.params[from + 1] = m[2] /\ sig.params[from + 2] = m[3])
                        /\ m[1] = "ByRef" => sig.params[from + 1] = pointer_type
    /\ \A i \in DOMAIN start_params :
          start_params[i].entered => start_params[i].params = func_ids[i].sig.params
    /\ \A c \in DOMAIN call_insts :
          /\ call_insts[c].emitted
          /\ call_insts[c].args = func_ids[call_insts[c].callee].sig.params

\* A body that returns by reference and takes a pair of scalars and a value
\* of no bytes was declared and defined, and a call of it was emitted.
C12_Witness ==
    \E i \in DOMAIN start_params :
        /\ pkg_items[i].kind = "Body"
        /\ ModeOf(pkg_items[i].ret) = "ByRef"
        /\ Len(pkg_items[i].params) = MaxCgParams
        /\ \E j \in DOMAIN pkg_items[i].params : ModeOf(pkg_items[i].params[j]) = "ByPair"
        /\ \E j \in DOMAIN pkg_items[i].params : ModeOf(pkg_items[i].params[j]) = "NoPass"
        /\ func_ids[i].sig.params = <<pointer_type, pointer_type, pointer_type>>
        /\ start_params[i].entered
        /\ \E c \in DOMAIN call_insts : call_insts[c].callee = i

\* C23: translate declares every item of the package before it defines any
\* body: while a body is being defined, every function and extern of the
\* package is in func_ids and every extern data item is in data_ids, so the
\* callee of every call (also one that comes later in the package) is found.
C23_DeclaredBeforeDefined ==
    /\ defined >= 1 =>
          \A i \in DOMAIN pkg_items :
              IF pkg_items[i].kind = "Data" THEN i \in DOMAIN data_ids
              ELSE i \in DOMAIN func_ids
    /\ \A c \in DOMAIN call_insts : call_insts[c].emitted

\* The first item is a body that calls the second item, an extern function.
C23_Witness ==
    /\ Len(pkg_items) = Cardinality(CgIds)
    /\ pkg_items[1].kind = "Body"
    /\ pkg_items[2].kind = "Extern"
    /\ defined = 1
    /\ \E c \in DOMAIN call_insts :
          /\ call_insts[c].caller = 1
          /\ call_insts[c].callee = 2
          /\ call_insts[c].emitted

\* C26: at every direct call the caller reads as many results of the call
\* instruction as the callee's signature returns: none for a NoPass or ByRef
\* destination, one for ByVal, two for ByPair; it never indexes a result
\* the call does not produce.
C26_ResultsReadMatchSignature ==
    \A c \in DOMAIN call_insts :
        LET call == call_insts[c]
            mode == ModeOf(pkg_items[call.callee].ret)
        IN  call.emitted =>
                /\ call.read = call.results
                /\ call.read = (CASE mode = "NoPass" -> 0 [] mode = "ByVal" -> 1
                                  [] mode = "ByPair" -> 2 [] mode = "ByRef" -> 0)

(***************************************************************************)
(*          TYPE INFERENCE: the unifier (hir_ty/src/infer/unify.rs)        *)
(***************************************************************************)
\* Unknown::from_raw(0 .. next_unknown - 1)
Unknowns == 0 .. (next_unknown - 1)

\* TyKind::Error, TyKind::Ctor(c), TyKind::Unknown(u): types without parts.
TyLeaves == {<<"Error">>, <<"Ctor", "Int">>} \cup {<<"Unknown", u>> : u \in Unknowns}

\* The types handed to the unifier: a leaf, or TyKind::App of the
\* constructor List to a leaf.
UTys == TyLeaves \cup {<<"App", <<"Ctor", "List">>, l>> : l \in TyLeaves}

\* subst_type never returns: its recursion came back to an unknown it is
\* already resolving, and recurses on the same type again.
Diverges == <<"diverges">>

RECURSIVE SubstType(_, _, _)
\* subst_type(ty): Ty::everywhere rewrites every part of the type, the parts
\* of an App before the App itself; an unknown with a solution is replaced
\* by subst_type of the solution.  `active` holds the unknowns whose
\* solutions the calls in progress are resolving.
SubstType(tys, ty, active) ==
    CASE ty[1] = "App" ->
            LET a == SubstType(tys, ty[2], active)
                b == SubstType(tys, ty[3], active)
            IN  IF a = Diverges \/ b = Diverges THEN Diverges ELSE <<"App", a, b>>
      [] ty[1] = "Unknown" ->
            IF ty[2] \notin DOMAIN tys THEN ty
            ELSE IF tys[ty[2]] = ty THEN tys[ty[2]]
            ELSE IF ty[2] \in active THEN Diverges
            ELSE SubstType(tys, tys[ty[2]], active \cup {ty[2]})
      [] OTHER -> ty

\* subst_type, called from outside
subst_type(tys, ty) == SubstType(tys, ty, {})

\* solve_type: self.subst.tys.insert(u, ty)
solve_type(tys, u, ty) == [x \in DOMAIN tys \cup {u} |-> IF x = u THEN ty ELSE tys[x]]

RECURSIVE UnifyTypes(_, _, _)
\* unify_types(t1, t2) on the substitution tys: the value returned ("true",
\* "false", or "overflow" when a subst_type never returns) and the
\* substitution after.
UnifyTypes(tys, a, b) ==
    LET t1 == subst_type(tys, a)
        t2 == subst_type(tys, b)
    IN  IF t1 = Diverges \/ t2 = Diverges THEN [res |-> "overflow", tys |-> tys]
        ELSE IF t1[1] = "Error" \/ t2[1] = "Error" THEN [res |-> "true", tys |-> tys]
        ELSE IF t1[1] = "Unknown" /\ t2[1] = "Unknown" /\ t1[2] = t2[2]
             THEN [res |-> "true", tys |-> tys]
        ELSE IF t1[1] = "Unknown" THEN [res |-> "true", tys |-> solve_type(tys, t1[2], t2)]
        ELSE IF t2[1] = "Unknown" THEN [res |-> "true", tys |-> solve_type(tys, t2[2], t1)]
        ELSE IF t1[1] = "Ctor" /\ t2[1] = "Ctor" THEN [res |-> IF t1[2] = t2[2] THEN "true" ELSE "false", tys |-> tys]
        ELSE IF t1[1] = "App" /\ t2[1] = "App"
             THEN LET first == UnifyTypes(tys, t1[2], t2[2])
                  IN  IF first.res # "true" THEN first
                      ELSE UnifyTypes(first.tys, t1[3], t2[3])
        ELSE [res |-> "false", tys |-> tys]

\* The inference is still running.
Inferring ==
    IF last_call = <<>> THEN TRUE ELSE last_call.res # "overflow"

\* fresh_type: fresh_type_with_kind(lang_type("type-kind"))
FreshType ==
    /\ Inferring
    /\ next_unknown < MaxUnknowns
    /\ next_unknown' = next_unknown + 1
    /\ unsolved' = [x \in DOMAIN unsolved \cup {next_unknown} |->
                       IF x = next_unknown THEN <<"Ctor", "type-kind">> ELSE unsolved[x]]
    /\ UNCHANGED <<subst_tys, unify_calls, last_call>>

\* unify_types(a, b)
CallUnifyTypes(a, b) ==
    /\ Inferring
    /\ unify_calls < MaxUnifyCalls
    /\ LET r == UnifyTypes(subst_tys, a, b)
       IN  /\ subst_tys' = r.tys
           /\ last_call' = [op |-> "unify_types", before |-> subst_tys,
                            t1 |-> subst_type(subst_tys, a), t2 |-> subst_type(subst_tys, b),
                            res |-> r.res, ty |-> <<>>]
    /\ unify_calls' = unify_calls + 1
    /\ UNCHANGED <<next_unknown, unsolved>>

\* subst_type(ty)
CallSubstType(ty) ==
    /\ Inferring
    /\ unify_calls < MaxUnifyCalls
    /\ last_call' = [op |-> "subst_type", before |-> subst_tys, t1 |-> ty, t2 |-> ty,
                     res |-> IF subst_type(subst_tys, ty) = Diverges THEN "overflow"
                             ELSE "returned",
                     ty |-> subst_type(subst_tys, ty)]
    /\ unify_calls' = unify_calls + 1
    /\ UNCHANGED <<next_unknown, unsolved, subst_tys>>

InitUnify == InternInit /\ MirIdle /\ LayIdle /\ TcxIdle /\ CgIdle /\ UnifyIdle /\ ShardIdle /\ SymIdle /\ TermIdle

notUnify == <<internVars, mirVars, layVars, tcxVars, cgVars, shardVars, symVars, termVars>>

NextUnify ==
    \/ FreshType /\ UNCHANGED notUnify
    \/ \E a \in UTys, b \in UTys : CallUnifyTypes(a, b) /\ UNCHANGED notUnify
    \/ \E ty \in UTys : CallSubstType(ty) /\ UNCHANGED notUnify

SpecUnify == InitUnify /\ [][NextUnify]_vars

RECURSIVE Contains(_, _)
\* The type has the unknown u among its parts.
Contains(ty, u) ==
    CASE ty[1] = "App" -> Contains(ty[2], u) \/ Contains(ty[3], u)
      [] ty[1] = "Unknown" -> ty[2] = u
      [] OTHER -> FALSE

\* The last call unified the unsolved unknown u with a different type that
\* contains u.
UnifiedWithContainer(u) ==
    IF last_call = <<>> THEN FALSE ELSE
    /\ last_call.op = "unify_types"
    /\ u \notin DOMAIN last_call.before
    /\ \/ last_call.t1 = <<"Unknown", u>> /\ last_call.t2 # <<"Unknown", u>>
             /\ last_call.t2 # Diverges /\ Contains(last_call.t2, u)
       \/ last_call.t2 = <<"Unknown", u>> /\ last_call.t1 # <<"Unknown", u>>
             /\ last_call.t1 # Diverges /\ Contains(last_call.t1, u)

\* C13: when unify_types is called on an unsolved unknown u and a different
\* type that contains u, it returns false and u stays without a solution, and
\* subst_type returns on every type.
C13_OccursCheckRejects ==
    \A u \in Unknowns :
        UnifiedWithContainer(u) =>
            /\ last_call.res = "false"
            /\ u \notin DOMAIN subst_tys
            /\ \A ty \in UTys : subst_type(subst_tys, ty) # Diverges

\* Types unified part by part: an application of an unknown to itself
\* against the application of List to Int, beside the leaves.
PartTys ==
    {<<"Ctor", "Int">>, <<"App", <<"Ctor", "List">>, <<"Ctor", "Int">>>>}
        \cup {<<"Unknown", u>> : u \in Unknowns}
        \cup {<<"App", <<"Unknown", u>>, <<"Unknown", u>>>> : u \in Unknowns}

NextUnifyParts ==
    \/ FreshType /\ UNCHANGED notUnify
    \/ \E a \in PartTys, b \in PartTys : CallUnifyTypes(a, b) /\ UNCHANGED notUnify

SpecUnifyParts == InitUnify /\ [][NextUnifyParts]_vars

\* C28: when unify_types returns false the substitution is the one from
\* before the call, also when the mismatch is found in a later part of an
\* application after an earlier part was unified.
C28_FailureLeavesSubstitution ==
    IF last_call = <<>> THEN TRUE ELSE
    (last_call.op = "unify_types" /\ last_call.res = "false") =>
        subst_tys = last_call.before

RECURSIVE ErrorFree(_)
\* The type has no Error among its parts.
ErrorFree(ty) ==
    CASE ty[1] = "App" -> ErrorFree(ty[2]) /\ ErrorFree(ty[3])
      [] ty[1] = "Error" -> FALSE
      [] OTHER -> TRUE

\* C29: when unify_types(t1, t2) returns true on types made of unknowns,
\* constructors and applications, subst_type returns the same type for t1
\* and t2 under the resulting substitution, and every unknown that had a
\* solution before the call keeps it.
C29_UnifiedTypesAgree ==
    IF last_call = <<>> THEN TRUE ELSE
    (/\ last_call.op = "unify_types"
     /\ last_call.res = "true"
     /\ ErrorFree(last_call.t1) /\ ErrorFree(last_call.t2)) =>
        /\ subst_type(subst_tys, last_call.t1) # Diverges
        /\ subst_type(subst_tys, last_call.t1) = subst_type(subst_tys, last_call.t2)
        /\ \A u \in DOMAIN last_call.before : subst_tys[u] = last_call.before[u]

\* The same for the calls that do not solve an unknown by a type containing it.
AgreeUnlessCyclic ==
    IF last_call = <<>> THEN TRUE ELSE
    (/\ last_call.op = "unify_types"
     /\ last_call.res = "true"
     /\ ErrorFree(last_call.t1) /\ ErrorFree(last_call.t2)
     /\ \A u \in Unknowns : ~UnifiedWithContainer(u)) =>
        /\ subst_type(subst_tys, last_call.t1) = subst_type(subst_tys, last_call.t2)
        /\ \A u \in DOMAIN last_call.before : subst_tys[u] = last_call.before[u]

(***************************************************************************)
(*                  TYPING CONTEXT: packages and types                     *)
(***************************************************************************)
\* hir::Id.  The package declares the items 1 .. NumItems; item i owns one
\* type reference (the type of its field, or its return type); one more id
\* names an item of a dependency, known only through a loaded type map.
Items == 1 .. NumItems

TypeRefOf(i) == NumItems + i

TypeRefIds == {TypeRefOf(i) : i \in Items}

Ext == 2 * NumItems + 1

\* hir::ItemKind of the items of the package.
ItemKind(i) == CASE i % 3 = 1 -> "Struct" [] i % 3 = 2 -> "Enum" [] OTHER -> "Func"

NominalItems == {i \in Items : ItemKind(i) \in {"Struct", "Enum"}}

\* Type: the variants used here, with the pointers of the component types.
Ty(k, id, args) == [k |-> k, id |-> id, args |-> args]

\* BuiltinTypes::new: the types interned before anything else.
BuiltinTypes == <<Ty("Error", 0, <<>>), Ty("Bool", 0, <<>>), Ty("Int", 32, <<>>)>>

\* The pointer of an interned type.
PtrOf(ar, node) == CHOOSE p \in 1 .. Len(ar) : ar[p] = node

\* TcxIntern::intern_ty: <<the interned types afterwards, the pointer>>
InternTy(ar, node) ==
    IF \E p \in 1 .. Len(ar) : ar[p] = node THEN <<ar, PtrOf(ar, node)>>
    ELSE <<Append(ar, node), Len(ar) + 1>>

\* BTreeMap::insert on Tcx::types
MapPut(m, k, v) == [x \in (DOMAIN m) \cup {k} |-> IF x = k THEN v ELSE m[x]]

RECURSIVE Tree(_, _)
\* The type behind a pointer as a tree, the form in which it is written to a
\* type-map file and in which two types are structurally equal.
Tree(ar, p) ==
    [k |-> ar[p].k, id |-> ar[p].id,
     args |-> [i \in 1 .. Len(ar[p].args) |-> Tree(ar, ar[p].args[i])]]

RECURSIVE DeserTy(_, _)
RECURSIVE DeserArgs(_, _, _)
\* The seeded deserializer: every Type node read is interned, components first.
DeserTy(ar, tree) ==
    LET sub == DeserArgs(ar, tree.args, <<>>)
    IN  InternTy(sub[1], Ty(tree.k, tree.id, sub[2]))

DeserArgs(ar, trees, ptrs) ==
    IF trees = <<>> THEN <<ar, ptrs>>
    ELSE LET one == DeserTy(ar, trees[1])
         IN  DeserArgs(one[1], Tail(trees), Append(ptrs, one[2]))

RECURSIVE Serialize(_, _)
\* bincode::serialize_into(file, &tmap): the entries (id, type tree), here in
\* ascending order of id.
Serialize(ar, tm) ==
    IF DOMAIN tm = {} THEN <<>>
    ELSE LET id   == CHOOSE x \in DOMAIN tm : \A y \in DOMAIN tm : x <= y
             rest == [y \in (DOMAIN tm) \ {id} |-> tm[y]]
         IN  <<<<id, Tree(ar, tm[id])>>>> \o Serialize(ar, rest)

RECURSIVE Deserialize(_, _, _)
\* deserialize_from_seed(Deser(&self.intern), file): <<interned types, TypeMap>>
Deserialize(ar, entries, tm) ==
    IF entries = <<>> THEN <<ar, tm>>
    ELSE LET one == DeserTy(ar, entries[1][2])
         IN  Deserialize(one[1], Tail(entries), MapPut(tm, entries[1][1], one[2]))

\* A load that inserts nothing.
InsertNone(tys, tm) == tys

\* load_type_map: for (id, ty) in tmap.0 { types.insert(id, ty) }
InsertAll(tys, tm) == [x \in (DOMAIN tys) \cup (DOMAIN tm) |-> IF x \in DOMAIN tm THEN tm[x] ELSE tys[x]]

\* Tcx::load_type_map: <<interned types, Tcx::types>> afterwards
LoadTypeMap(ar, tys, entries) ==
    LET read == Deserialize(ar, entries, <<>>)
    IN  <<read[1], InsertAll(tys, read[2])>>

\* The type-map file of the dependency: its one item is a struct of an i32.
ExtFile == <<<<Ext, Ty("Struct", Ext, <<Ty("Int", 32, <<>>)>>)>>>>

\* The ids for which the type-map files of the package hold a type.
LoadedIds ==
    UNION {{package.typemaps[f][e][1] : e \in DOMAIN package.typemaps[f]} :
               f \in DOMAIN package.typemaps}

\* hir::resolve::ModuleStructure: the items with an odd id are declared in the
\* root module, the others in its child module.
ModuleStructure ==
    [items |-> {i \in Items : i % 2 = 1},
     children |-> <<[items |-> {i \in Items : i % 2 = 0}, children |-> <<>>]>>]

RECURSIVE ModuleIds(_)
\* store_type_map, fn rec: the items of a module and of its children
ModuleIds(m) == m.items \cup UNION {ModuleIds(m.children[c]) : c \in DOMAIN m.children}

\* The syntactic type references: i32, `_`, or the path of a struct or enum.
TypeRefs(loaded, kind) ==
    {<<"Int">>} \cup {<<"Path", j>> : j \in NominalItems \cup (IF loaded THEN {Ext} ELSE {})}
    \cup (IF kind = "Func" THEN {<<"Infer">>} ELSE {})

\* The bodies of functions: an integer literal or a boolean literal.
Bodies(kind) == IF kind = "Func" THEN {"IntLit", "BoolLit"} ELSE {"none"}

\* The packages with_tcx is run on.
Packages ==
    UNION {[tref : [Items -> TypeRefs(loaded, "Func")] ,
            body : [Items -> {"IntLit", "BoolLit", "none"}],
            typemaps : {IF loaded THEN <<ExtFile>> ELSE <<>>}] : loaded \in BOOLEAN}

WellFormed(pk) ==
    \A i \in Items :
        /\ pk.tref[i] \in TypeRefs(pk.typemaps # <<>>, ItemKind(i))
        /\ pk.body[i] \in Bodies(ItemKind(i))

\* diagnostics::Reporter::has_errors
has_errors == \E d \in DOMAIN diags : diags[d].severity \in {"Bug", "Error"}

\* Tcx::error: the diagnostic it hands to the reporter
Tcx_error(ds, msg) == Append(ds, [severity |-> "Warning", msg |-> msg])

\* The unifier on one Equal(a, b): same pointer, Error, a type variable, the
\* numeric variable rule, nominal equality of structs and enums.
Unifies(ar, a, b) ==
    \/ a = b
    \/ "Error" \in {ar[a].k, ar[b].k}
    \/ "Var" \in {ar[a].k, ar[b].k}
    \/ ar[a].k = "VInt" /\ ar[b].k \in {"Int", "VInt"}
    \/ ar[b].k = "VInt" /\ ar[a].k \in {"Int", "VInt"}
    \/ ar[a].k \in {"Struct", "Enum"} /\ ar[a].k = ar[b].k /\ ar[a].id = ar[b].id

RECURSIVE UnifyAll(_, _, _)
\* Tcx::unify: every constraint that does not unify is reported as an error.
UnifyAll(ar, cs, ds) ==
    IF cs = <<>> THEN ds
    ELSE UnifyAll(ar, Tail(cs),
                  IF Unifies(ar, cs[1][1], cs[1][2]) THEN ds ELSE Tcx_error(ds, "mismatched types"))

(***************************************************************************)
(*        TYPING CONTEXT: type_of, infer_item, check_item, with_tcx        *)
(***************************************************************************)
\* The recursion of type_of is as deep as the package allows and no deeper.
MaxDepth == 2 * NumItems + 2

Top == frames[Len(frames)]

Pop == SubSeq(frames, 1, Len(frames) - 1)

\* An inference of id has started and has not returned.
InProgress(id) == \E f \in DOMAIN frames : frames[f].id = id /\ frames[f].pc # "enter"

\* The frame of a call type_of(id): where it was called from, whether id is
\* being inferred further down, and what the context looked like on entry.
Frame(id, site) ==
    [id |-> id, pc |-> "enter", site |-> site, re |-> InProgress(id), tmp |-> <<>>,
     cs0 |-> Len(constraints), tv0 |-> ty_vars,
     entry0 |-> IF id \in DOMAIN types THEN <<types[id]>> ELSE <<>>]

\* The caller waits at `at` for type_of(id).
Call(at, id, site) == Append([frames EXCEPT ![Len(frames)].pc = at], Frame(id, site))

\* The record of a call that returns ty, with the context as it is then.
Returned(f, ty, tys, cs, tv) ==
    [id |-> f.id, ret |-> ty, site |-> f.site, re |-> f.re,
     quiet |-> Len(cs) = f.cs0 /\ tv = f.tv0 /\ f.entry0 = <<tys[f.id]>>]

\* A type_of that never finds its id in the map.
NeverCached(tys, id) == FALSE

\* type_of: if let Some(ty) = types.get(id)
Cached(tys, id) == id \in DOMAIN tys

\* A type_of that does not put the result of infer_item into the map.
NoReserve(tys, id, ty) == tys

\* type_of: self.types.borrow_mut().insert(*id, ty) between infer_item and check_item
ReservePlaceholder(tys, id, ty) == MapPut(tys, id, ty)

\* A type_of that returns what infer_item gave it.
KeepInferred(tys, id, inferred) == inferred

\* type_of: self.types.borrow()[id] after check_item
RereadEntry(tys, id, inferred) == tys[id]

\* A store that writes the error type for every item.
StoredNothing(tys, id) == PtrOf(interned, Ty("Error", 0, <<>>))

\* store_type_map: tmap.0.insert(*id, this.type_of(id)), the id being in the map
StoredType(tys, id) == tys[id]

TcxInit ==
    /\ package \in Packages
    /\ WellFormed(package)
    /\ phase = "load"
    /\ cursor = 1
    /\ types = <<>>
    /\ interned = BuiltinTypes
    /\ frames = <<>>
    /\ retv = <<>>
    /\ constraints = <<>>
    /\ ty_vars = 0
    /\ diags = <<>>
    /\ verified = FALSE
    /\ continued = FALSE
    /\ tmap = <<>>
    /\ file = <<>>
    /\ fresh = <<>>
    /\ calls = {}
    /\ inferCount = [i \in Items \cup {Ext} |-> 0]

RECURSIVE LoadAll(_, _, _)
\* with_tcx: for path in typemaps { tcx.load_type_map(path) }
LoadAll(ar, tys, files) ==
    IF files = <<>> THEN <<ar, tys>>
    ELSE LET one == LoadTypeMap(ar, tys, files[1])
         IN  LoadAll(one[1], one[2], Tail(files))

LoadTypeMaps ==
    /\ phase = "load"
    /\ LET l == LoadAll(interned, types, package.typemaps)
       IN  interned' = l[1] /\ types' = l[2]
    /\ phase' = "infer"
    /\ UNCHANGED <<package, cursor, frames, retv, constraints, ty_vars, diags, verified,
                   continued, tmap, file, fresh, calls, inferCount>>

\* with_tcx: for (id, _) in &package.items { tcx.type_of(id) }
DriverTypeOf ==
    /\ phase = "infer"
    /\ frames = <<>>
    /\ cursor <= NumItems
    /\ frames' = <<Frame(cursor, "with_tcx")>>
    /\ cursor' = cursor + 1
    /\ retv' = <<>>
    /\ UNCHANGED <<package, phase, types, interned, constraints, ty_vars, diags, verified,
                   continued, tmap, file, fresh, calls, inferCount>>

\* type_of, the id is in the map: return the entry.
TypeOfHit ==
    /\ phase \in {"infer", "cont"}
    /\ frames # <<>>
    /\ Top.pc = "enter"
    /\ Cached(types, Top.id)
    /\ frames' = Pop
    /\ retv' = <<types[Top.id]>>
    /\ calls' = calls \cup {Returned(Top, types[Top.id], types, constraints, ty_vars)}
    /\ UNCHANGED <<package, phase, cursor, types, interned, constraints, ty_vars, diags,
                   verified, continued, tmap, file, fresh, inferCount>>

\* type_of on a struct or enum that is not in the map: infer_item interns
\* TypeOf(id), the map receives it, and check_item asks for the field's type.
InferStructEnum ==
    /\ phase \in {"infer", "cont"}
    /\ frames # <<>>
    /\ Len(frames) < MaxDepth
    /\ Top.pc = "enter"
    /\ ~Cached(types, Top.id)
    /\ Top.id \in NominalItems
    /\ LET in == InternTy(interned, Ty("TypeOf", Top.id, <<>>))
       IN  /\ interned' = in[1]
           /\ types' = ReservePlaceholder(types, Top.id, in[2])
    /\ inferCount' = [inferCount EXCEPT ![Top.id] = @ + 1]
    /\ frames' = Call("field", TypeRefOf(Top.id), "check_item")
    /\ retv' = <<>>
    /\ UNCHANGED <<package, phase, cursor, constraints, ty_vars, diags, verified, continued,
                   tmap, file, fresh, calls>>

\* check_item on a struct or enum, the field's type being known: the map
\* entry becomes Struct(id, fields) / Enum(id, variants); type_of reads the
\* entry again, inserts it and returns it.
CheckStructEnum ==
    /\ frames # <<>>
    /\ Top.pc = "field"
    /\ retv # <<>>
    /\ LET in     == InternTy(interned, Ty(ItemKind(Top.id), Top.id, <<retv[1]>>))
           placed == MapPut(types, Top.id, in[2])
           ty     == RereadEntry(placed, Top.id, PtrOf(interned, Ty("TypeOf", Top.id, <<>>)))
           final  == MapPut(placed, Top.id, ty)
       IN  /\ interned' = in[1]
           /\ types' = final
           /\ retv' = <<ty>>
           /\ calls' = calls \cup {Returned(Top, ty, final, constraints, ty_vars)}
    /\ frames' = Pop
    /\ UNCHANGED <<package, phase, cursor, constraints, ty_vars, diags, verified, continued,
                   tmap, file, fresh, inferCount>>

\* type_of on a function that is not in the map: infer_item asks for the
\* return type.
InferFunc ==
    /\ phase \in {"infer", "cont"}
    /\ frames # <<>>
    /\ Len(frames) < MaxDepth
    /\ Top.pc = "enter"
    /\ ~Cached(types, Top.id)
    /\ Top.id \in Items
    /\ ItemKind(Top.id) = "Func"
    /\ inferCount' = [inferCount EXCEPT ![Top.id] = @ + 1]
    /\ frames' = Call("ret", TypeRefOf(Top.id), "infer_item")
    /\ retv' = <<>>
    /\ UNCHANGED <<package, phase, cursor, types, interned, constraints, ty_vars, diags,
                   verified, continued, tmap, file, fresh, calls>>

\* infer_item on a function, the return type being known: Func(params, ret)
\* goes into the map; check_item infers the body (an integer literal is a
\* fresh VInt) and asks for the return type again.
CheckFuncBody ==
    /\ frames # <<>>
    /\ Len(frames) < MaxDepth
    /\ Top.pc = "ret"
    /\ retv # <<>>
    /\ LET fn   == InternTy(interned, Ty("Func", 0, <<retv[1]>>))
           body == IF package.body[Top.id] = "IntLit"
                   THEN InternTy(fn[1], Ty("VInt", ty_vars, <<>>))
                   ELSE InternTy(fn[1], Ty("Bool", 0, <<>>))
       IN  /\ interned' = body[1]
           /\ types' = ReservePlaceholder(types, Top.id, fn[2])
           /\ ty_vars' = IF package.body[Top.id] = "IntLit" THEN ty_vars + 1 ELSE ty_vars
           /\ frames' = Append([frames EXCEPT ![Len(frames)].pc = "check",
                                               ![Len(frames)].tmp = <<body[2], fn[2]>>],
                                Frame(TypeRefOf(Top.id), "check_item"))
    /\ retv' = <<>>
    /\ UNCHANGED <<package, phase, cursor, constraints, diags, verified, continued,
                   tmap, file, fresh, calls, inferCount>>

\* check_item on a function: Equal(body_ty, ret_ty) is pushed; type_of reads
\* the entry again, inserts it and returns it.
CheckFunc ==
    /\ frames # <<>>
    /\ Top.pc = "check"
    /\ retv # <<>>
    /\ LET cs    == Append(constraints, <<Top.tmp[1], retv[1]>>)
           ty    == RereadEntry(types, Top.id, Top.tmp[2])
           final == MapPut(types, Top.id, ty)
       IN  /\ constraints' = cs
           /\ types' = final
           /\ retv' = <<ty>>
           /\ calls' = calls \cup {Returned(Top, ty, final, cs, ty_vars)}
    /\ frames' = Pop
    /\ UNCHANGED <<package, phase, cursor, interned, ty_vars, diags, verified, continued,
                   tmap, file, fresh, inferCount>>

\* type_of on a type reference that is not in the map: i32 is the builtin,
\* `_` is a fresh variable; the result goes into the map.
InferTypeLeaf ==
    /\ phase \in {"infer", "cont"}
    /\ frames # <<>>
    /\ Top.pc = "enter"
    /\ ~Cached(types, Top.id)
    /\ Top.id \in TypeRefIds
    /\ package.tref[Top.id - NumItems][1] \in {"Int", "Infer"}
    /\ LET infer == package.tref[Top.id - NumItems][1] = "Infer"
           in    == IF infer THEN InternTy(interned, Ty("Var", ty_vars, <<>>))
                    ELSE InternTy(interned, Ty("Int", 32, <<>>))
           tv    == IF infer THEN ty_vars + 1 ELSE ty_vars
           final == MapPut(types, Top.id, in[2])
       IN  /\ interned' = in[1]
           /\ ty_vars' = tv
           /\ types' = final
           /\ retv' = <<in[2]>>
           /\ calls' = calls \cup {Returned(Top, in[2], final, constraints, tv)}
    /\ frames' = Pop
    /\ UNCHANGED <<package, phase, cursor, constraints, diags, verified, continued,
                   tmap, file, fresh, inferCount>>

\* type_of on a type reference that is a path: the type of the item it names.
InferTypePath ==
    /\ phase \in {"infer", "cont"}
    /\ frames # <<>>
    /\ Len(frames) < MaxDepth
    /\ Top.pc = "enter"
    /\ ~Cached(types, Top.id)
    /\ Top.id \in TypeRefIds
    /\ package.tref[Top.id - NumItems][1] = "Path"
    /\ frames' = Call("path", package.tref[Top.id - NumItems][2], "infer_type")
    /\ retv' = <<>>
    /\ UNCHANGED <<package, phase, cursor, types, interned, constraints, ty_vars, diags,
                   verified, continued, tmap, file, fresh, calls, inferCount>>

\* type_of on a path, the item's type being known: it goes into the map
\* under the id of the type reference.
InferTypeReturn ==
    /\ frames # <<>>
    /\ Top.pc = "path"
    /\ retv # <<>>
    /\ LET final == MapPut(types, Top.id, retv[1])
       IN  /\ types' = final
           /\ calls' = calls \cup {Returned(Top, retv[1], final, constraints, ty_vars)}
    /\ frames' = Pop
    /\ UNCHANGED <<package, phase, cursor, interned, retv, constraints, ty_vars, diags,
                   verified, continued, tmap, file, fresh, inferCount>>

\* type_of: panic!("unused id {}", id)
UnusedId ==
    /\ frames # <<>>
    /\ Top.pc = "enter"
    /\ ~Cached(types, Top.id)
    /\ Top.id \notin Items \cup TypeRefIds
    /\ phase \in {"infer", "cont"}
    /\ phase' = "panic"
    /\ UNCHANGED <<package, cursor, types, interned, frames, retv, constraints, ty_vars, diags,
                   verified, continued, tmap, file, fresh, calls, inferCount>>

\* with_tcx: tcx.unify()
Unify ==
    /\ phase = "infer"
    /\ frames = <<>>
    /\ cursor > NumItems
    /\ diags' = UnifyAll(interned, constraints, diags)
    /\ phase' = "unified"
    /\ UNCHANGED <<package, cursor, types, interned, frames, retv, constraints, ty_vars,
                   verified, continued, tmap, file, fresh, calls, inferCount>>

\* with_tcx: if !reporter.has_errors() { tcx.verify() }
Verify ==
    /\ phase = "unified"
    /\ verified' = ~has_errors
    /\ phase' = "verified"
    /\ UNCHANGED <<package, cursor, types, interned, frames, retv, constraints, ty_vars, diags,
                   continued, tmap, file, fresh, calls, inferCount>>

\* with_tcx: reporter.report(true), which ends the compilation when the
\* reporter has errors.
Report ==
    /\ phase = "verified"
    /\ phase' = IF has_errors THEN "exit" ELSE "reported"
    /\ UNCHANGED <<package, cursor, types, interned, frames, retv, constraints, ty_vars, diags,
                   verified, continued, tmap, file, fresh, calls, inferCount>>

\* with_tcx: f(tcx)
Continue ==
    /\ phase = "reported"
    /\ continued' = TRUE
    /\ phase' = "cont"
    /\ UNCHANGED <<package, cursor, types, interned, frames, retv, constraints, ty_vars, diags,
                   verified, tmap, file, fresh, calls, inferCount>>

\* Tcx::layout_of(id), called by the continuation before it stores the type
\* map: layout(type_of(id))
LayoutOf(id) ==
    /\ phase = "cont"
    /\ frames = <<>>
    /\ file = <<>>
    /\ Cardinality({c \in calls : c.site = "layout_of"}) < MaxLayoutOf
    /\ frames' = <<Frame(id, "layout_of")>>
    /\ retv' = <<>>
    /\ UNCHANGED <<package, phase, cursor, types, interned, constraints, ty_vars, diags,
                   verified, continued, tmap, file, fresh, calls, inferCount>>

\* Tcx::store_type_map, called by the continuation: the type of every item of
\* the module tree, serialized.
StoreTypeMap ==
    /\ phase = "cont"
    /\ frames = <<>>
    /\ file = <<>>
    /\ LET ids == ModuleIds(ModuleStructure)
           tm  == [id \in ids |-> StoredType(types, id)]
       IN  /\ \A id \in ids : Cached(types, id)
           /\ tmap' = <<tm>>
           /\ file' = <<Serialize(interned, tm)>>
           /\ calls' = calls \cup
                  {Returned(Frame(id, "store_type_map"), types[id], types, constraints, ty_vars) :
                       id \in ids}
    /\ UNCHANGED <<package, phase, cursor, types, interned, frames, retv, constraints, ty_vars,
                   diags, verified, continued, fresh, inferCount>>

\* Tcx::load_type_map of the stored file in a new context (Tcx::new).
LoadFresh ==
    /\ phase = "cont"
    /\ file # <<>>
    /\ fresh = <<>>
    /\ LET l == LoadTypeMap(BuiltinTypes, <<>>, file[1])
       IN  fresh' = <<[interned |-> l[1], types |-> l[2]]>>
    /\ UNCHANGED <<package, phase, cursor, types, interned, frames, retv, constraints, ty_vars,
                   diags, verified, continued, tmap, file, calls, inferCount>>

InitTcx == InternInit /\ MirIdle /\ LayIdle /\ TcxInit /\ CgIdle /\ UnifyIdle /\ ShardIdle /\ SymIdle /\ TermIdle

notTcx == <<internVars, mirVars, layVars, cgVars, unifyVars, shardVars, symVars, termVars>>

NextTcx ==
    \/ LoadTypeMaps /\ UNCHANGED notTcx
    \/ DriverTypeOf /\ UNCHANGED notTcx
    \/ TypeOfHit /\ UNCHANGED notTcx
    \/ InferStructEnum /\ UNCHANGED notTcx
    \/ CheckStructEnum /\ UNCHANGED notTcx
    \/ InferFunc /\ UNCHANGED notTcx
    \/ CheckFuncBody /\ UNCHANGED notTcx
    \/ CheckFunc /\ UNCHANGED notTcx
    \/ InferTypeLeaf /\ UNCHANGED notTcx
    \/ InferTypePath /\ UNCHANGED notTcx
    \/ InferTypeReturn /\ UNCHANGED notTcx
    \/ UnusedId /\ UNCHANGED notTcx
    \/ Unify /\ UNCHANGED notTcx
    \/ Verify /\ UNCHANGED notTcx
    \/ Report /\ UNCHANGED notTcx
    \/ Continue /\ UNCHANGED notTcx
    \/ \E id \in Items \cup {Ext} : LayoutOf(id) /\ UNCHANGED notTcx
    \/ StoreTypeMap /\ UNCHANGED notTcx
    \/ LoadFresh /\ UNCHANGED notTcx

SpecTcx == InitTcx /\ [][NextTcx]_vars

\* The inference part of with_tcx: the type maps are loaded and type_of is
\* called on every item of the package.
NextInfer ==
    \/ LoadTypeMaps /\ UNCHANGED notTcx
    \/ DriverTypeOf /\ UNCHANGED notTcx
    \/ TypeOfHit /\ UNCHANGED notTcx
    \/ InferStructEnum /\ UNCHANGED notTcx
    \/ CheckStructEnum /\ UNCHANGED notTcx
    \/ InferFunc /\ UNCHANGED notTcx
    \/ CheckFuncBody /\ UNCHANGED notTcx
    \/ CheckFunc /\ UNCHANGED notTcx
    \/ InferTypeLeaf /\ UNCHANGED notTcx
    \/ InferTypePath /\ UNCHANGED notTcx
    \/ InferTypeReturn /\ UNCHANGED notTcx

\* The compiler is a sequential program: it keeps taking its next step.
FairSpecInfer == InitTcx /\ [][NextInfer]_vars /\ WF_vars(NextInfer)

(***************************************************************************)
(*                    TYPING CONTEXT: properties                           *)
(***************************************************************************)
\* The finished calls type_of(i) on items of the package.
ItemCalls == {c \in calls : c.id \in Items}

\* The outermost type_of(i) has returned.
Finished(i) == i \in DOMAIN types /\ ~InProgress(i) /\ \E c \in calls : c.id = i /\ ~c.re

C5_CyclicTypeOfTerminates ==
    /\ [](\A i \in Items : inferCount[i] <= 1)
    /\ [](\A f, g \in DOMAIN frames :
              (frames[f].id = frames[g].id /\ f # g) => "enter" \in {frames[f].pc, frames[g].pc})
    /\ (\E i \in NominalItems : InProgress(i)) ~>
           (frames = <<>> /\ cursor > NumItems /\ \A i \in NominalItems : Finished(i))

\* Two items that refer to each other have been inferred: the inner one saw
\* the placeholder of the outer one.
C5_Witness ==
    \E i, j \in NominalItems :
        /\ i # j
        /\ package.tref[i] = <<"Path", j>> /\ package.tref[j] = <<"Path", i>>
        /\ Finished(i) /\ Finished(j)
        /\ \E c \in calls : c.id = i /\ c.re /\ interned[c.ret].k = "TypeOf"

\* The pointer load_type_map stored for the dependency's item.
LoadedPtr == PtrOf(interned, Ty("Struct", Ext, <<PtrOf(interned, Ty("Int", 32, <<>>))>>))

\* C6: for an id whose type came from load_type_map before inference, every
\* later type_of(id) returns the loaded pointer (it does not panic) and does
\* no inference: infer_item never runs for it, and no call pushes a
\* constraint, takes a fresh variable or changes the map entry.
C6_LoadedNotReinferred ==
    phase # "load" =>
        \A id \in LoadedIds :
            /\ id \in DOMAIN types
            /\ types[id] = LoadedPtr
            /\ inferCount[id] = 0
            /\ \A c \in calls : c.id = id => (c.ret = LoadedPtr /\ c.quiet)
            /\ ~(phase = "panic" /\ Top.id = id)

\* The loaded id was asked for by a type reference of the package and by the
\* continuation.
C6_Witness ==
    /\ \E c \in calls : c.id \in LoadedIds /\ c.site = "infer_type"
    /\ \E c \in calls : c.id \in LoadedIds /\ c.site = "layout_of"

\* A type error was reported through Tcx::error.
TypeErrors == \E d \in DOMAIN diags : diags[d].msg = "mismatched types"

\* C7 as stated: if inference or unification reported a type error, then
\* has_errors() holds from the phase boundary on and neither verify nor the
\* continuation runs; without a type error verify ran before the continuation.
C7_ErrorsStopPipeline ==
    /\ (TypeErrors /\ phase \in {"unified", "verified", "reported", "exit", "cont", "panic"}) =>
           (has_errors /\ ~verified /\ ~continued)
    /\ (~TypeErrors /\ continued) => verified

SymbolNames == {"", "a", "b", "c"}

\* self.data.iter().position(|d| d == &value): the first index (from 0)
\* holding the value, <<>> when there is none.
SymPosition(data, value) ==
    LET at == {i \in DOMAIN data : data[i] = value}
    IN  IF at = {} THEN <<>>
        ELSE <<(CHOOSE i \in at : \A j \in at : i <= j) - 1>>

\* An interner that pushes every value it is given.
InternPush(data, value) == [data |-> Append(data, value), sym |-> Len(data)]

\* SymbolInterner::intern: the index of the value if data holds it, else
\* the value is pushed and its index is data.len() - 1.
SymIntern(data, value) ==
    IF SymPosition(data, value) # <<>>
    THEN [data |-> data, sym |-> SymPosition(data, value)[1]]
    ELSE [data |-> Append(data, value), sym |-> Len(Append(data, value)) - 1]

\* Symbol::as_static_str: GLOBAL_SYMBOL_INTERNER.data[self.0]
as_static_str(sym) == sym_data[sym + 1]

\* Symbol::new(name)
SymbolNew(name) ==
    /\ Len(issued) < MaxSymbolCalls
    /\ sym_data' = SymIntern(sym_data, name).data
    /\ issued' = Append(issued, [name |-> name, sym |-> SymIntern(sym_data, name).sym])

\* Symbol::dummy(): the empty string is interned
SymbolDummy == SymbolNew("")

InitSym == InternInit /\ MirIdle /\ LayIdle /\ TcxIdle /\ CgIdle /\ UnifyIdle /\ ShardIdle /\ SymIdle /\ TermIdle

notSym == <<internVars, mirVars, layVars, tcxVars, cgVars, unifyVars, shardVars, termVars>>

NextSym ==
    \/ \E name \in SymbolNames \ {""} : SymbolNew(name) /\ UNCHANGED notSym
    \/ SymbolDummy /\ UNCHANGED notSym

SpecSym == InitSym /\ [][NextSym]_vars

\* C30: after any sequence of Symbol::new calls made by one thread, two of
\* the symbols returned are equal exactly when their strings are equal,
\* every symbol returned still resolves to the string it was made from, and
\* data holds no string twice.
C30_SymbolsAreStrings ==
    /\ \A i, j \in DOMAIN issued :
          (issued[i].sym = issued[j].sym) <=> (issued[i].name = issued[j].name)
    /\ \A i \in DOMAIN issued :
          /\ issued[i].sym + 1 \in DOMAIN sym_data
          /\ as_static_str(issued[i].sym) = issued[i].name
    /\ \A i, j \in DOMAIN sym_data : sym_data[i] = sym_data[j] => i = j

\* A string was interned, then other strings, then the first one again
\* (found, not pushed), and the empty string is among them.
C30_Witness ==
    /\ Len(sym_data) >= 3
    /\ \E i, j, k \in DOMAIN issued :
          /\ i < j /\ j < k
          /\ issued[i].name = issued[k].name
          /\ issued[j].name # issued[i].name
          /\ issued[j].sym > issued[i].sym
    /\ \E i \in DOMAIN issued : issued[i].name = ""

====
